---- MODULE Spec2Model ----
(***************************************************************************)
(* Model of the private-jets ETL: the blob-backed content cache            *)
(* (src/fs.rs), the trace cache (src/icao_to_trace.rs), the leg            *)
(* identification iterator (src/legs.rs) and the ETL orchestrators         *)
(* (src/bin/etl_legs.rs, src/bin/etl_positions.rs).                        *)
(***************************************************************************)
EXTENDS Integers, Sequences, FiniteSets, TLC

(***************************************************************************)
(* Bounds of the model                                                     *)
(***************************************************************************)
\* number of concurrent callers of the content cache
NumProcs == 2
\* longest position sequence handed to the leg iterator
MaxLen == 4
\* number of ETL runs (position ETL or leg ETL) in one behaviour
MaxRuns == 3

Procs == 1..NumProcs
\* the dates for which a trace is requested (one key per date, a single aircraft)
Dates == {1}
LastDate == CHOOSE d \in Dates : \A e \in Dates : e <= d
\* byte strings a provider fetch can return
Bytes == {"b1", "b2"}
NoBlob == "none"
FetchErr == "err"
\* the error of a put the back-end rejects for lack of authorization
PutErr == "unauthorized"

VARIABLES
    \* ---- content cache (src/fs.rs) ----
    remote,      \* blobs of the configured back-end: Dates -> Bytes \cup {NoBlob}
    local,       \* blobs of the LocalDisk back-end
    canPut,      \* can_put() of the configured back-end
    today,       \* OffsetDateTime::now_utc().date()
    call,        \* per caller: the cached_call invocation in progress
    \* history of the cache, used by the properties only
    firstPut,    \* per key: the bytes of the first put on the configured back-end
    racers,      \* per key: callers that had already missed when the first put happened
    lastPutBy,   \* per key: the caller of the latest put (0: none)
    onlyRFW,     \* per key: every invocation so far used ReadFetchWrite
    okDone       \* per key: a ReadFetchWrite invocation (a past date) has returned Ok

VARIABLES
    \* ---- leg identification (src/legs.rs) ----
    P,                  \* the whole input position sequence (kept for the properties)
    positions,          \* Legs.positions: the input not yet consumed
    previous_position,  \* Legs.previous_position
    sequence,           \* Legs.sequence
    emitted,            \* the legs returned by Legs::next so far, in order
    lastRet,            \* "init" | "leg" | "none": what the last next() returned
    out                 \* the legs returned by the legs() facade so far, in order

legVars == <<P, positions, previous_position, sequence, emitted, lastRet, out>>

VARIABLES
    \* ---- ETL orchestrators (src/bin/etl_legs.rs, src/bin/etl_positions.rs) ----
    posBlobs,      \* the (icao, month) with a blob under position/
    legBlobs,      \* the (icao, month) with a blob under leg/v2/data/
    ekind,         \* "none" | "positions" | "legs": the binary that is running
    epc,           \* "idle" | "tasks" | "aggregate" | "done" | "failed"
    todo,          \* the sorted Todo of the run
    started,       \* number of tasks of todo handed to the buffered stream
    inflight,      \* the tasks that are running
    okTasks,       \* the tasks of the run that returned Ok
    failedTasks,   \* the tasks of the run that returned Err
    errorLog,      \* the tasks of the run whose error was logged
    putsRun,       \* the leg blobs put by the tasks of the run
    aggCompleted,  \* aggregate: the Completed set it listed
    yearsDone,     \* aggregate: the years whose yearly file was written
    statusWritten, \* aggregate: leg/v2/status.json was written in the run
    runs,          \* number of runs finished
    \* history, used by the properties only
    prevLeg        \* the previous leg ETL run: none, or its Completed set and whether it was clean

etlVars == <<posBlobs, legBlobs, ekind, epc, todo, started, inflight, okTasks, failedTasks,
             errorLog, putsRun, aggCompleted, yearsDone, statusWritten, runs, prevLeg>>

cacheVars == <<remote, local, canPut, today, call, firstPut, racers, lastPutBy,
               onlyRFW, okDone>>

VARIABLES
    \* ---- trace client (src/icao_to_trace.rs) and month blob (src/trace_month.rs) ----
    tr,   \* one positions(icao, date) call whose key is in no back-end
    mp    \* one month_positions(icao, month) call whose key is in no back-end

traceVars == <<tr, mp>>

VARIABLES
    \* ---- read paths (src/fs.rs, src/fs_s3.rs, src/trace_month.rs, src/io.rs) ----
    blob,  \* per back-end: the contents of one key, or NoBlob
    rd,    \* per reader: the read in progress
    \* ---- time-varying jet set (src/private_jets_in_time.rs) ----
    pj,    \* two runs of private_jets_in_month on the same inputs
    \* ---- range query (src/trace_month.rs) ----
    rq,    \* one aircraft_positions(from, to, icao) call
    \* ---- hive paths (src/trace_month.rs, src/serde.rs, src/bin/etl_legs.rs) ----
    hv     \* one (icao, month), its blob name and the key decoded from it

auxVars == <<blob, rd, pj, rq, hv>>

VARIABLES
    \* ---- position ETL stage (src/bin/etl_positions.rs, src/trace_month.rs) ----
    stage, \* per month_positions task of todo: its state and its daily fetches
    \* ---- leg rows (src/bin/etl_legs.rs) ----
    legRows \* the LegOut rows pulled from transform(positions)

extVars == <<stage, legRows>>

vars == <<cacheVars, legVars, etlVars, traceVars, auxVars, extVars>>

(***************************************************************************)
(* src/fs.rs                                                               *)
(***************************************************************************)
CacheAction == {"ReadFetchWrite", "ReadFetch", "FetchWrite"}

from_date_Strict(date, now) == IF date > now THEN "ReadFetch" ELSE "ReadFetchWrite"

\* CacheAction::from_date
from_date(date, now) == IF date >= now THEN "ReadFetch" ELSE "ReadFetchWrite"

maybe_get_Never(store, key) == NoBlob

\* BlobStorageProvider::maybe_get: None when the key does not exist
maybe_get(store, key) == store[key]

IsHit_Never(r) == FALSE

\* `if let Some(data) = provider.maybe_get(..)` / `let Some(data) = .. else`
IsHit(r) == r # NoBlob

\* cached: FetchWrite goes straight to miss, the other actions read first
SkipsRead(action) == action = "FetchWrite"

NoWrite_Always(action, can_put) == TRUE

NoWrite_IgnoresAction(action, can_put) == ~can_put

\* miss: `if action == CacheAction::ReadFetch || !provider.can_put()` => no put
NoWrite(action, can_put) == action = "ReadFetch" \/ ~can_put

MissProvider_AlwaysClient(can_put) == "remote"

\* cached_call: the provider handed to cached after the first read missed
MissProvider(can_put) == IF can_put THEN "remote" ELSE "local"

\* LocalDisk::can_put is true; the configured back-end answers canPut
ProviderCanPut(provider) == IF provider = "local" THEN TRUE ELSE canPut

StoreOf(provider) == IF provider = "local" THEN local ELSE remote

\* data: the fetched contents while pc = "put", the returned value when pc = "done"
\* afterWrite, afterOk, afterLocal: what had happened to the key when the invocation started
Idle == [pc |-> "idle", key |-> 0, action |-> "none", provider |-> "none",
         data |-> NoBlob, fetched |-> FALSE, afterWrite |-> FALSE, afterOk |-> FALSE,
         afterLocal |-> FALSE, denied |-> FALSE]

StartCall(p, key, action) ==
    /\ call[p].pc = "idle"
    /\ call' = [call EXCEPT ![p] =
                  [Idle EXCEPT !.pc = "read1", !.key = key,
                               !.action = action,
                               !.afterWrite = (remote[key] # NoBlob),
                               !.afterOk = okDone[key],
                               !.afterLocal = (local[key] # NoBlob)]]
    /\ onlyRFW' = [onlyRFW EXCEPT ![key] = @ /\ action = "ReadFetchWrite"]
    /\ UNCHANGED <<remote, local, canPut, today, firstPut, racers, lastPutBy, okDone>>

\* a direct cached_call(blob_name, fetch, client, action)
CachedCall(p) ==
    \E key \in Dates, action \in CacheAction : StartCall(p, key, action)

\* positions(icao, date) -> trace_cached -> globe_history_cached:
\* cached_call(cache_file_path(icao, date), globe_history(icao, date), client, from_date(date))
Positions(p) ==
    \E date \in Dates : StartCall(p, date, from_date(date, today))

\* cached_call: `client.maybe_get(blob_name).await?` and the choice of the provider
Read1(p) ==
    LET c == call[p]
        r == maybe_get(remote, c.key) IN
    /\ c.pc = "read1"
    /\ IF IsHit(r)
         THEN call' = [call EXCEPT ![p].pc = "done", ![p].data = r]
         ELSE call' = [call EXCEPT ![p].provider = MissProvider(canPut),
                                   ![p].pc = IF SkipsRead(c.action) THEN "fetch" ELSE "read2"]
    /\ UNCHANGED <<remote, local, canPut, today, firstPut, racers, lastPutBy, onlyRFW, okDone>>

\* cached: `provider.maybe_get(blob_name).await?`
Read2(p) ==
    LET c == call[p]
        r == maybe_get(StoreOf(c.provider), c.key) IN
    /\ c.pc = "read2"
    /\ IF IsHit(r)
         THEN call' = [call EXCEPT ![p].pc = "done", ![p].data = r]
         ELSE call' = [call EXCEPT ![p].pc = "fetch"]
    /\ UNCHANGED <<remote, local, canPut, today, firstPut, racers, lastPutBy, onlyRFW, okDone>>

AfterFetch_PutsAnyResult(action, can_put, r) ==
    IF NoWrite(action, can_put) THEN "done" ELSE "put"

\* miss: where the call goes after `fetch.await`: `?` returns the error of a
\* failed fetch; a fetched content is returned as it is or put first
AfterFetch(action, can_put, r) ==
    IF r = FetchErr THEN "done"
    ELSE IF NoWrite(action, can_put) THEN "done" ELSE "put"

\* miss: `fetch.await.map_err(..)?` and the decision not to write
Fetch(p) ==
    LET c == call[p] IN
    /\ c.pc = "fetch"
    /\ \E r \in Bytes \cup {FetchErr} :
         call' = [call EXCEPT ![p].pc = AfterFetch(c.action, ProviderCanPut(c.provider), r),
                              ![p].data = r,
                              ![p].fetched = (c.fetched \/ r # FetchErr)]
    /\ UNCHANGED <<remote, local, canPut, today, firstPut, racers, lastPutBy, onlyRFW, okDone>>

\* miss: `provider.put(blob_name, contents.clone()).await?`
Put(p) ==
    LET c == call[p] IN
    /\ c.pc = "put"
    /\ call' = [call EXCEPT ![p].pc = "done"]
    /\ IF c.provider = "local"
         THEN /\ local' = [local EXCEPT ![c.key] = c.data]
              /\ UNCHANGED <<remote, firstPut, racers, lastPutBy>>
         ELSE /\ remote' = [remote EXCEPT ![c.key] = c.data]
              /\ lastPutBy' = [lastPutBy EXCEPT ![c.key] = p]
              /\ IF firstPut[c.key] = NoBlob
                   THEN /\ firstPut' = [firstPut EXCEPT ![c.key] = c.data]
                        /\ racers' = [racers EXCEPT ![c.key] =
                              {q \in Procs \ {p} : /\ call[q].key = c.key
                                                   /\ call[q].pc \in {"fetch", "put"}}]
                   ELSE UNCHANGED <<firstPut, racers>>
              /\ UNCHANGED local
    /\ UNCHANGED <<canPut, today, onlyRFW, okDone>>

\* miss: `provider.put(blob_name, contents.clone()).await?` when the configured
\* back-end rejects the put with an authorization error: `?` returns the error
PutDenied(p) ==
    LET c == call[p] IN
    /\ c.pc = "put"
    /\ c.provider = "remote"
    /\ call' = [call EXCEPT ![p].pc = "done", ![p].data = PutErr, ![p].denied = TRUE]
    /\ UNCHANGED <<remote, local, canPut, today, firstPut, racers, lastPutBy, onlyRFW, okDone>>

\* the invocation returns to its caller
Return(p) ==
    LET c == call[p] IN
    /\ c.pc = "done"
    /\ call' = [call EXCEPT ![p] = Idle]
    /\ okDone' = [okDone EXCEPT ![c.key] =
                    @ \/ (c.action = "ReadFetchWrite" /\ c.data \in Bytes)]
    /\ UNCHANGED <<remote, local, canPut, today, firstPut, racers, lastPutBy, onlyRFW>>

\* midnight UTC passes
AdvanceDay ==
    /\ today <= LastDate
    /\ today' = today + 1
    /\ UNCHANGED <<remote, local, canPut, call, firstPut, racers, lastPutBy, onlyRFW, okDone>>

InitCache ==
    /\ remote = [d \in Dates |-> NoBlob]
    /\ local = [d \in Dates |-> NoBlob]
    /\ canPut \in BOOLEAN
    /\ today \in {LastDate - 1, LastDate}
    /\ call = [p \in Procs |-> Idle]
    /\ firstPut = [d \in Dates |-> NoBlob]
    /\ racers = [d \in Dates |-> {}]
    /\ lastPutBy = [d \in Dates |-> 0]
    /\ onlyRFW = [d \in Dates |-> TRUE]
    /\ okDone = [d \in Dates |-> FALSE]

NextCache ==
    \/ (\E p \in Procs : CachedCall(p)) /\ UNCHANGED <<legVars, etlVars, traceVars, auxVars, extVars>>
    \/ (\E p \in Procs : Positions(p)) /\ UNCHANGED <<legVars, etlVars, traceVars, auxVars, extVars>>
    \/ (\E p \in Procs : Read1(p)) /\ UNCHANGED <<legVars, etlVars, traceVars, auxVars, extVars>>
    \/ (\E p \in Procs : Read2(p)) /\ UNCHANGED <<legVars, etlVars, traceVars, auxVars, extVars>>
    \/ (\E p \in Procs : Fetch(p)) /\ UNCHANGED <<legVars, etlVars, traceVars, auxVars, extVars>>
    \/ (\E p \in Procs : Put(p)) /\ UNCHANGED <<legVars, etlVars, traceVars, auxVars, extVars>>
    \/ (\E p \in Procs : Return(p)) /\ UNCHANGED <<legVars, etlVars, traceVars, auxVars, extVars>>
    \/ AdvanceDay /\ UNCHANGED <<legVars, etlVars, traceVars, auxVars, extVars>>


(***************************************************************************)
(* src/lib.rs (Position) and src/legs.rs                                   *)
(***************************************************************************)
\* altitude: None
NoAlt == -1
FiveMinutes == 300
TenHours == 36000
LowAltitude == 10000
MinDistance == 3

\* a position: t in seconds, alt in feet or NoAlt, x in km along a meridian
Pos(t, alt, x) == [t |-> t, alt |-> alt, x |-> x]

grounded(p) == p.alt = NoAlt
flying(p) == p.alt # NoAlt
\* Position::altitude: 0.0 when grounded
altitude(p) == IF p.alt = NoAlt THEN 0 ELSE p.alt
\* Position::distace, in km
distace(p, q) == IF p.x >= q.x THEN p.x - q.x ELSE q.x - p.x

grounded_heuristic_AtFiveMinutes(previous, position) ==
    LET is_flying == flying(previous) \/ flying(position) IN
    IF ~is_flying THEN FALSE
    ELSE LET lost_close_to_ground ==
                 /\ position.t - previous.t >= FiveMinutes
                 /\ (altitude(position) < LowAltitude \/ altitude(previous) < LowAltitude)
             lost_somewhere == position.t - previous.t > TenHours
         IN is_flying /\ (lost_close_to_ground \/ lost_somewhere)

grounded_heuristic_NoBlackout(previous, position) ==
    LET is_flying == flying(previous) \/ flying(position) IN
    IF ~is_flying THEN FALSE
    ELSE /\ position.t - previous.t > FiveMinutes
         /\ (altitude(position) < LowAltitude \/ altitude(previous) < LowAltitude)

grounded_heuristic(previous, position) ==
    LET is_flying == flying(previous) \/ flying(position) IN
    IF ~is_flying THEN FALSE
    ELSE LET lost_close_to_ground ==
                 /\ position.t - previous.t > FiveMinutes
                 /\ (altitude(position) < LowAltitude \/ altitude(previous) < LowAltitude)
             lost_somewhere == position.t - previous.t > TenHours
         IN is_flying /\ (lost_close_to_ground \/ lost_somewhere)

landed_HeuristicOnly(previous, position) == grounded_heuristic(previous, position)

landed(previous, position) ==
    (flying(previous) /\ grounded(position)) \/ grounded_heuristic(previous, position)

is_grounded_HeuristicOnly(previous, position) == grounded_heuristic(previous, position)

is_grounded_BothGrounded(previous, position) == grounded(previous) /\ grounded(position)

is_grounded(previous, position) ==
    (grounded(previous) /\ grounded(position)) \/ grounded_heuristic(previous, position)

\* Leg::from, Leg::to, Leg::duration, Leg::distance
from(leg) == leg[1]
to(leg) == leg[Len(leg)]
duration(leg) == to(leg).t - from(leg).t
distance(leg) == distace(from(leg), to(leg))

\* Legs::new: the first position, or the placeholder at epoch 0
Placeholder == Pos(0, NoAlt, 0)

Push_AlwaysSeeds(seq, previous, position) == seq \o <<previous, position>>

Push_NeverSeeds(seq, previous, position) == seq \o <<position>>

\* Legs::next, the body of `if !is_grounded(..)`: seed an empty sequence, append
Push(seq, previous, position) ==
    (IF seq = <<>> THEN <<previous>> ELSE seq) \o <<position>>

OnExhausted_DropsResidual(previous, seq) ==
    [positions |-> <<>>, previous_position |-> previous, sequence |-> seq,
     some |-> FALSE, leg |-> <<>>]

\* Legs::next, after the loop: `(!self.sequence.is_empty()).then_some(Leg {take(sequence)})`
OnExhausted(previous, seq) ==
    [positions |-> <<>>, previous_position |-> previous, sequence |-> <<>>,
     some |-> seq # <<>>, leg |-> seq]

RECURSIVE LegsLoop(_, _, _)
\* Legs::next: the state of the iterator after the call and what it returns
LegsLoop(rest, previous, seq) ==
    IF rest = <<>> THEN OnExhausted(previous, seq)
    ELSE LET position == Head(rest)
             seq1 == IF ~is_grounded(previous, position)
                       THEN Push(seq, previous, position) ELSE seq
         IN IF landed(previous, position) /\ seq1 # <<>>
              THEN [positions |-> Tail(rest), previous_position |-> position,
                    sequence |-> <<>>, some |-> TRUE, leg |-> seq1]
              ELSE LegsLoop(Tail(rest), position, seq1)

PassesFilters_DurationOnly(leg) == duration(leg) > FiveMinutes

\* legs: the two filters of the facade
PassesFilters(leg) == duration(leg) > FiveMinutes /\ distance(leg) > MinDistance

RECURSIVE FacadeLoop(_, _, _, _)
\* one next() of legs(): pull from Legs until a leg passes the filters or None
FacadeLoop(rest, previous, seq, pulled) ==
    LET r == LegsLoop(rest, previous, seq) IN
    IF ~r.some THEN [inner |-> r, pulled |-> pulled, some |-> FALSE, leg |-> <<>>]
    ELSE IF PassesFilters(r.leg)
      THEN [inner |-> r, pulled |-> Append(pulled, r.leg), some |-> TRUE, leg |-> r.leg]
      ELSE FacadeLoop(r.positions, r.previous_position, r.sequence, Append(pulled, r.leg))

\* one call of Legs::next
LegsNext ==
    LET r == LegsLoop(positions, previous_position, sequence) IN
    /\ positions' = r.positions
    /\ previous_position' = r.previous_position
    /\ sequence' = r.sequence
    /\ emitted' = IF r.some THEN Append(emitted, r.leg) ELSE emitted
    /\ lastRet' = IF r.some THEN "leg" ELSE "none"
    /\ UNCHANGED <<P, out>>

\* one call of next() on the iterator returned by legs()
FacadeNext ==
    LET f == FacadeLoop(positions, previous_position, sequence, <<>>) IN
    /\ positions' = f.inner.positions
    /\ previous_position' = f.inner.previous_position
    /\ sequence' = f.inner.sequence
    /\ emitted' = emitted \o f.pulled
    /\ out' = IF f.some THEN Append(out, f.leg) ELSE out
    /\ lastRet' = IF f.some THEN "leg" ELSE "none"
    /\ UNCHANGED P

RECURSIVE TimeAt(_, _)
TimeAt(gaps, i) == IF i <= 1 THEN 0 ELSE TimeAt(gaps, i - 1) + gaps[i]

\* the input: time-ordered positions built from gaps, altitudes and places
InputOf(n, g, a, x) == [i \in 1..n |-> Pos(TimeAt(g, i), a[i], x[i])]

\* Legs::new(positions)
InitLegsOn(input) ==
    /\ P = input
    /\ positions = IF input = <<>> THEN <<>> ELSE Tail(input)
    /\ previous_position = IF input = <<>> THEN Placeholder ELSE Head(input)
    /\ sequence = <<>>
    /\ emitted = <<>>
    /\ lastRet = "init"
    /\ out = <<>>

GapsLegs == {1, FiveMinutes, FiveMinutes + 1, TenHours, TenHours + 1}
AltsLegs == {NoAlt, LowAltitude - 1, LowAltitude}

InitLegs ==
    \E n \in 0..MaxLen :
        \E g \in [2..n -> GapsLegs], a \in [1..n -> AltsLegs] :
            InitLegsOn(InputOf(n, g, a, [i \in 1..n |-> 0]))

GapsFacade == {1, FiveMinutes}
AltsFacade == {NoAlt, LowAltitude - 1}
XsFacade == {0, MinDistance, MinDistance + 1}

InitFacade ==
    \E n \in 0..MaxLen :
        \E g \in [2..n -> GapsFacade], a \in [1..n -> AltsFacade], x \in [1..n -> XsFacade] :
            InitLegsOn(InputOf(n, g, a, x))

\* the leg variables while another part of the system is explored
LegsUnused == InitLegsOn(<<>>)

(***************************************************************************)
(* src/bin/etl_legs.rs and src/bin/etl_positions.rs                        *)
(***************************************************************************)
\* ICAO numbers (hex, compared as the strings of equal length they are) and
\* months (counted from 2019-01); a key is <<icao, month>>
Jets == {10, 11}
OtherAircraft == {12}
Months == {0, 12}
FirstYear == 2019
LegBuffered == 50
PositionBuffered == 10

year(month) == FirstYear + (month \div 12)

\* main: `required`, the private jets times the months
Required == Jets \X Months
\* blobs left in the store by runs for aircraft that are not required
Foreign == OtherAircraft \X {0}

\* `todo.sort_unstable_by_key(|(icao, date)| (date, icao))`
KeyLess(k, j) == k[2] < j[2] \/ (k[2] = j[2] /\ k[1] < j[1])

RECURSIVE SortByMonthIcao(_)
SortByMonthIcao(S) ==
    IF S = {} THEN <<>>
    ELSE LET m == CHOOSE k \in S : \A j \in S \ {k} : KeyLess(k, j)
         IN <<m>> \o SortByMonthIcao(S \ {m})

\* list_months_positions(client) / list(client): the keys under a prefix
list(blobs) == blobs

\* etl_legs main: `let completed = HashSet::new(); //list(client).await?...`
LegCompleted == {}

\* etl_legs main: ready, filtered to required
LegReady == {k \in list(posBlobs) : k \in Required}

\* etl_legs main: `ready.difference(&completed)`, sorted
LegTodo == SortByMonthIcao(LegReady \ LegCompleted)

\* etl_positions main: `required.difference(&completed)`, sorted
PositionTodo == SortByMonthIcao(Required \ list(posBlobs))

Buffered(kind) == IF kind = "legs" THEN LegBuffered ELSE PositionBuffered

StartRun(kind, tasks) ==
    /\ epc = "idle"
    /\ runs < MaxRuns
    /\ ekind' = kind
    /\ epc' = "tasks"
    /\ todo' = tasks
    /\ started' = 0
    /\ inflight' = {}
    /\ okTasks' = {}
    /\ failedTasks' = {}
    /\ errorLog' = {}
    /\ putsRun' = {}
    /\ aggCompleted' = {}
    /\ yearsDone' = {}
    /\ statusWritten' = FALSE
    /\ UNCHANGED <<posBlobs, legBlobs, runs, prevLeg>>

\* etl_legs main, up to the task stream
LegEtlStart == StartRun("legs", LegTodo)

\* etl_positions main, up to the task stream
PosEtlStart == StartRun("positions", PositionTodo)

\* `stream::iter(tasks).buffered(N)`: the next task of todo starts while fewer than N run
TaskStart ==
    /\ epc = "tasks"
    /\ started < Len(todo)
    /\ Cardinality(inflight) < Buffered(ekind)
    /\ started' = started + 1
    /\ inflight' = inflight \cup {todo[started + 1]}
    /\ UNCHANGED <<posBlobs, legBlobs, ekind, epc, todo, okTasks, failedTasks, errorLog,
                   putsRun, aggCompleted, yearsDone, statusWritten, runs, prevLeg>>

TaskBlob_Shared(k) == <<k[1], 0>>

\* write: the key of the blob that etl_task(k) puts, pk_to_blob_name(icao, month)
TaskBlob(k) == k

TaskFailure_PartialBlob(blobs, k) == blobs \cup {TaskBlob(k)}

\* etl_task: the leg blobs after etl_task(k) returned Err: `?` leaves before write
\* when the extract fails, and a failed put stores nothing
TaskFailure(blobs, k) == blobs

\* etl_task: get_month_positions, transform, write; its Result is dropped by main
LegTaskFinish(k) ==
    /\ epc = "tasks" /\ ekind = "legs"
    /\ k \in inflight
    /\ inflight' = inflight \ {k}
    /\ \E io_ok \in BOOLEAN :
         IF io_ok /\ k \in posBlobs
           THEN /\ legBlobs' = legBlobs \cup {TaskBlob(k)}
                /\ putsRun' = putsRun \cup {TaskBlob(k)}
                /\ okTasks' = okTasks \cup {k}
                /\ UNCHANGED failedTasks
           ELSE /\ failedTasks' = failedTasks \cup {k}
                /\ legBlobs' = TaskFailure(legBlobs, k)
                /\ UNCHANGED <<putsRun, okTasks>>
    /\ UNCHANGED <<posBlobs, ekind, epc, todo, started, errorLog, aggCompleted, yearsDone,
                   statusWritten, runs, prevLeg>>

\* month_positions and `.map(|r| if let Err(e) = r { log::error!("{e}") })`
PosTaskFinish(k) ==
    /\ epc = "tasks" /\ ekind = "positions"
    /\ k \in inflight
    /\ inflight' = inflight \ {k}
    /\ \E io_ok \in BOOLEAN :
         IF io_ok
           THEN /\ posBlobs' = posBlobs \cup {k}
                /\ okTasks' = okTasks \cup {k}
                /\ UNCHANGED <<failedTasks, errorLog>>
           ELSE /\ failedTasks' = failedTasks \cup {k}
                /\ errorLog' = errorLog \cup {k}
                /\ UNCHANGED <<posBlobs, okTasks>>
    /\ UNCHANGED <<legBlobs, ekind, epc, todo, started, putsRun, aggCompleted, yearsDone,
                   statusWritten, runs, prevLeg>>

StreamCollected == epc = "tasks" /\ started = Len(todo) /\ inflight = {}

\* etl_positions main: the stream is collected, main returns Ok
PosTasksDone ==
    /\ StreamCollected /\ ekind = "positions"
    /\ epc' = "done"
    /\ UNCHANGED <<posBlobs, legBlobs, ekind, todo, started, inflight, okTasks, failedTasks,
                   errorLog, putsRun, aggCompleted, yearsDone, statusWritten, runs, prevLeg>>

\* aggregate: list the leg blobs and keep the required ones
AggregateStart ==
    /\ StreamCollected /\ ekind = "legs"
    /\ epc' = "aggregate"
    /\ aggCompleted' = {k \in list(legBlobs) : k \in Required}
    /\ UNCHANGED <<posBlobs, legBlobs, ekind, todo, started, inflight, okTasks, failedTasks,
                   errorLog, putsRun, yearsDone, statusWritten, runs, prevLeg>>

\* aggregate, one year: read every leg blob of the year (`try_collect().await?`),
\* write leg/v2/all/year=<y>/data.csv
AggregateYear(y) ==
    /\ epc = "aggregate"
    /\ y \in {year(k[2]) : k \in aggCompleted} \ yearsDone
    /\ \E read_ok \in BOOLEAN :
         IF read_ok
           THEN yearsDone' = yearsDone \cup {y} /\ UNCHANGED epc
           ELSE epc' = "failed" /\ UNCHANGED yearsDone
    /\ UNCHANGED <<posBlobs, legBlobs, ekind, todo, started, inflight, okTasks, failedTasks,
                   errorLog, putsRun, aggCompleted, statusWritten, runs, prevLeg>>

\* aggregate: write leg/v2/status.json
AggregateStatus ==
    /\ epc = "aggregate"
    /\ yearsDone = {year(k[2]) : k \in aggCompleted}
    /\ statusWritten' = TRUE
    /\ epc' = "done"
    /\ UNCHANGED <<posBlobs, legBlobs, ekind, todo, started, inflight, okTasks, failedTasks,
                   errorLog, putsRun, aggCompleted, yearsDone, runs, prevLeg>>

\* aggregate: the fold over `required` with `.and_modify(|e| *e += 1).or_insert(0)`:
\* the first key of a year inserts 0, every later one adds 1
required_by_year(y) == Cardinality({k \in Required : year(k[2]) = y}) - 1

\* aggregate: the completed keys grouped by the year of their month
completed_by_year(y) == {k \in aggCompleted : year(k[2]) = y}

\* aggregate: the Metadata inserted for year y
Metadata(y) ==
    [icao_months_to_process |-> required_by_year(y),
     icao_months_processed |-> Cardinality(completed_by_year(y))]

\* the content of leg/v2/status.json: one entry per year of completed_by_year
StatusJson == [y \in yearsDone |-> Metadata(y)]

\* the process exits
Finish ==
    /\ epc \in {"done", "failed"}
    /\ epc' = "idle"
    /\ runs' = runs + 1
    /\ prevLeg' = IF ekind = "legs"
                    THEN [ran |-> TRUE, clean |-> failedTasks = {} /\ epc = "done",
                          completed |-> {k \in legBlobs : k \in Required}]
                    ELSE IF okTasks # {} THEN [prevLeg EXCEPT !.ran = FALSE] ELSE prevLeg
    /\ UNCHANGED <<posBlobs, legBlobs, ekind, todo, started, inflight, okTasks, failedTasks,
                   errorLog, putsRun, aggCompleted, yearsDone, statusWritten>>

InitEtl ==
    /\ posBlobs = Foreign
    /\ legBlobs = Foreign
    /\ ekind = "none"
    /\ epc = "idle"
    /\ todo = <<>>
    /\ started = 0
    /\ inflight = {}
    /\ okTasks = {}
    /\ failedTasks = {}
    /\ errorLog = {}
    /\ putsRun = {}
    /\ aggCompleted = {}
    /\ yearsDone = {}
    /\ statusWritten = FALSE
    /\ runs = 0
    /\ prevLeg = [ran |-> FALSE, clean |-> FALSE, completed |-> {}]

NextEtl ==
    \/ LegEtlStart /\ UNCHANGED <<cacheVars, legVars, traceVars, auxVars, extVars>>
    \/ PosEtlStart /\ UNCHANGED <<cacheVars, legVars, traceVars, auxVars, extVars>>
    \/ TaskStart /\ UNCHANGED <<cacheVars, legVars, traceVars, auxVars, extVars>>
    \/ (\E k \in Required : LegTaskFinish(k)) /\ UNCHANGED <<cacheVars, legVars, traceVars, auxVars, extVars>>
    \/ (\E k \in Required : PosTaskFinish(k)) /\ UNCHANGED <<cacheVars, legVars, traceVars, auxVars, extVars>>
    \/ PosTasksDone /\ UNCHANGED <<cacheVars, legVars, traceVars, auxVars, extVars>>
    \/ AggregateStart /\ UNCHANGED <<cacheVars, legVars, traceVars, auxVars, extVars>>
    \/ (\E y \in {year(m) : m \in Months} : AggregateYear(y)) /\ UNCHANGED <<cacheVars, legVars, traceVars, auxVars, extVars>>
    \/ AggregateStatus /\ UNCHANGED <<cacheVars, legVars, traceVars, auxVars, extVars>>
    \/ Finish /\ UNCHANGED <<cacheVars, legVars, traceVars, auxVars, extVars>>

(***************************************************************************)
(* Specifications                                                          *)
(***************************************************************************)
\* the content cache under concurrent callers
(***************************************************************************)
(* src/icao_to_trace.rs                                                    *)
(***************************************************************************)
\* build_with_max_retries(5)
MaxRetries == 5

\* The bytes of a trace payload, by what compute_trace can tell apart:
\*   kind       "empty" (no byte), "invalid" (not JSON), "array" (JSON that is
\*              not an object), "object"
\*   timestamp  of an object: "absent", "number", "string" (present, not a number)
\*   trace      of an object: "absent", "object" (present, not an array),
\*              "norows" (the empty array), "rows" (an array of rows)
Payload(kind, timestamp, trace) == [kind |-> kind, timestamp |-> timestamp, trace |-> trace]

Payloads ==
    {Payload(k, "absent", "absent") : k \in {"empty", "invalid", "array"}}
        \cup {Payload("object", ts, t) : ts \in {"absent", "number", "string"},
                                        t \in {"absent", "object", "norows", "rows"}}

\* the payloads a provider sends with an error status: an HTML page, or a JSON error object
ErrorBodies == {Payload("invalid", "absent", "absent"), Payload("object", "absent", "absent")}

\* globe_history: the payload synthesized for a 404
\* {"icao": .., "noRegData": true, "timestamp": 1697155200.000, "trace": []}
NotFoundPayload == Payload("object", "number", "norows")

\* What one request can end in: a response (status, body) or a transport failure
\* (connection reset, timeout), for which status = "reset".
Outcome(status, body) == [status |-> status, body |-> body]

NoBody == Payload("empty", "absent", "absent")

Outcomes ==
    {Outcome("200", b) : b \in Payloads}
        \cup {Outcome(st, b) : st \in {"404", "403", "500"}, b \in ErrorBodies}
        \cup {Outcome("reset", NoBody)}

\* RetryTransientMiddleware: server errors and transport failures are retried,
\* a success and the other client errors are not
Transient(o) == o.status \in {"500", "reset"}

\* ExponentialBackoff::should_retry after n_past_retries retries
ShouldRetry(n_past_retries) == n_past_retries < MaxRetries

Err == [ok |-> FALSE, data |-> NoBody]
Ok(data) == [ok |-> TRUE, data |-> data]

globe_history_result_No404(o) ==
    IF o.status = "reset" THEN Err ELSE Ok(o.body)

\* globe_history, from the final answer of the client to its result:
\* `.send().await.map_err(..)?`, then the three branches on response.status()
globe_history_result(o) ==
    IF o.status = "reset" THEN Err
    ELSE IF o.status = "200" THEN Ok(o.body)
    ELSE IF o.status = "404" THEN Ok(NotFoundPayload)
    ELSE Ok(o.body)

Rows(res, rows) == [res |-> res, rows |-> rows]

\* compute_trace: the result is Ok with some or no rows, the error of
\* serde_json::from_slice, or the panic of `timestamp.as_f64().unwrap()`
compute_trace(data) ==
    IF data.kind = "empty" THEN Rows("Ok", "none")
    ELSE IF data.kind = "invalid" THEN Rows("Err", "none")
    ELSE IF data.kind # "object" THEN Rows("Ok", "none")
    ELSE IF data.timestamp = "absent" THEN Rows("Ok", "none")
    ELSE IF data.timestamp # "number" THEN Rows("Panic", "none")
    ELSE IF data.trace = "absent" THEN Rows("Ok", "none")
    ELSE IF data.trace \notin {"norows", "rows"} THEN Rows("Ok", "none")
    ELSE Rows("Ok", IF data.trace = "rows" THEN "some" ELSE "none")

\* pc: "idle", "request" (the client is sending or backing off), "response"
\*     (the client has its final answer), "miss" (globe_history has returned to
\*     fs::miss), "trace" (cached_call has returned to trace_cached), "done"
\* past: date < today, so that the action is ReadFetchWrite
TrIdle(past) ==
    [pc |-> "idle", past |-> past, attempts |-> 0, last |-> Outcome("none", NoBody),
     result |-> Err, blob |-> "none", ret |-> Rows("none", "none")]

\* positions(icao, date, client): the key is absent, so cached_call awaits globe_history
TracePositions ==
    /\ tr.pc = "idle"
    /\ tr' = [tr EXCEPT !.pc = "request"]
    /\ UNCHANGED mp

\* one request of the retrying client, and what the middleware does with its outcome
TraceSend ==
    /\ tr.pc = "request"
    /\ \E o \in Outcomes :
         tr' = [tr EXCEPT !.attempts = @ + 1, !.last = o,
                          !.pc = IF Transient(o) /\ ShouldRetry(tr.attempts)
                                   THEN "request" ELSE "response"]
    /\ UNCHANGED mp

\* globe_history returns
TraceRespond ==
    /\ tr.pc = "response"
    /\ tr' = [tr EXCEPT !.pc = "miss", !.result = globe_history_result(tr.last)]
    /\ UNCHANGED mp

\* fs::miss: `fetch.await.map_err(..)?`, the put unless the action is ReadFetch
\* (the provider is the client when it can put and the local disk otherwise)
TraceMiss ==
    /\ tr.pc = "miss"
    /\ IF ~tr.result.ok
         THEN tr' = [tr EXCEPT !.pc = "done", !.ret = Rows("Err", "none")]
         ELSE tr' = [tr EXCEPT !.pc = "trace",
                       !.blob = IF NoWrite(from_date(IF tr.past THEN 0 ELSE 1, 1), TRUE)
                                  THEN "none" ELSE "written"]
    /\ UNCHANGED mp

\* trace_cached: compute_trace(..), and positions maps compute_positions over it
TraceCompute ==
    /\ tr.pc = "trace"
    /\ tr' = [tr EXCEPT !.pc = "done", !.ret = compute_trace(tr.result.data)]
    /\ UNCHANGED mp

InitTrace == \E past \in BOOLEAN : tr = TrIdle(past)

(***************************************************************************)
(* src/trace_month.rs                                                      *)
(***************************************************************************)
\* the days of a month that the model tells apart: the first and later ones
MaxDay == 2
MonthYears == {2023, 2024}

\* time::Date
Date(y, m, d) == [year |-> y, month |-> m, day |-> d]

\* the order of time::Date
Ordinal(d) == (d.year * 12 + (d.month - 1)) * (MaxDay + 1) + d.day

\* first_of_next_month
first_of_next_month(month) ==
    LET next_month == IF month.month = 12 THEN 1 ELSE month.month + 1 IN
    IF next_month = 1 THEN Date(month.year + 1, 1, 1)
                      ELSE Date(month.year, next_month, 1)

\* month_positions: `let to = first_of_next_month(&month); CacheAction::from_date(&to)`
month_action(month, now) == from_date(Ordinal(first_of_next_month(month)), Ordinal(now))

MpIdle(month, now) ==
    [pc |-> "idle", month |-> month, now |-> now, action |-> "none", written |-> FALSE]

\* month_positions(icao, month, client) up to the call of cached_call
MonthPositions ==
    /\ mp.pc = "idle"
    /\ mp' = [mp EXCEPT !.pc = "call", !.action = month_action(mp.month, mp.now)]
    /\ UNCHANGED tr

\* cached_call misses, the fetch of the days succeeds: fs::miss puts unless ReadFetch
MonthMiss ==
    /\ mp.pc = "call"
    /\ mp' = [mp EXCEPT !.pc = "done", !.written = ~NoWrite(mp.action, TRUE)]
    /\ UNCHANGED tr

InitMonth ==
    \E y \in MonthYears, m \in 1..12, ny \in MonthYears, nm \in 1..12, nd \in 1..MaxDay :
        mp = MpIdle(Date(y, m, 1), Date(ny, nm, nd))

MonthUnused == mp = MpIdle(Date(2023, 1, 1), Date(2023, 1, 1))

TraceUnused == tr = TrIdle(FALSE) /\ MonthUnused

(***************************************************************************)
(* src/fs.rs, src/fs_s3.rs (maybe_get), src/trace_month.rs                  *)
(* (get_month_positions) and src/io.rs (get_csv)                           *)
(***************************************************************************)
Backends == {"s3", "local"}
ReadPaths == {"maybe_get", "get_month_positions", "get_csv"}

\* results of maybe_get: Some(bytes) is the bytes themselves
None == "None"
IoError == "Err"

\* fs_s3::exists (head_object) / `path.try_exists()?`
exists(store) == store # NoBlob

\* fs_s3::get (get_object) / `std::fs::read(path)?`: a missing key is an error
get(store) == IF store = NoBlob THEN IoError ELSE store

\* get_month_positions: `.ok_or_else(|| std::io::Error::other(..))?`, then from_slice
get_month_positions_result(r) ==
    IF r = None THEN "Err" ELSE IF r = IoError THEN "Err" ELSE "Ok"

\* get_csv: `client.maybe_get(key).await?.expect("File to be present")`
get_csv_result(r) ==
    IF r = None THEN "Panic" ELSE IF r = IoError THEN "Err" ELSE "Ok"

\* what the read path hands to its caller for the result r of maybe_get
PathResult(path, r) ==
    IF path = "get_month_positions" THEN get_month_positions_result(r)
    ELSE IF path = "get_csv" THEN get_csv_result(r)
    ELSE IF r = None THEN "None" ELSE IF r = IoError THEN "Err" ELSE "Ok"

\* pc: "idle", "exists" (before the existence check), "get" (the check said
\*     yes, before the read of the contents), "ret" (maybe_get has returned r),
\*     "done" (the read path has returned out)
RdIdle == [pc |-> "idle", backend |-> "none", path |-> "none", r |-> "none", out |-> "none"]

\* a read path is entered on one back-end
ReadStart(p) ==
    /\ rd[p].pc \in {"idle", "done"}
    /\ \E b \in Backends, path \in ReadPaths :
         rd' = [rd EXCEPT ![p] = [RdIdle EXCEPT !.pc = "exists", !.backend = b, !.path = path]]
    /\ UNCHANGED <<blob, pj, rq, hv>>

\* maybe_get: `if exists(self, blob_name).await?` / `if path.try_exists()?`
ReadExists(p) ==
    /\ rd[p].pc = "exists"
    /\ IF exists(blob[rd[p].backend])
         THEN rd' = [rd EXCEPT ![p].pc = "get"]
         ELSE rd' = [rd EXCEPT ![p].pc = "ret", ![p].r = None]
    /\ UNCHANGED <<blob, pj, rq, hv>>

\* maybe_get: `Ok(Some(get(&self, blob_name).await?))` / `Ok(Some(std::fs::read(path)?))`
ReadGet(p) ==
    /\ rd[p].pc = "get"
    /\ rd' = [rd EXCEPT ![p].pc = "ret", ![p].r = get(blob[rd[p].backend])]
    /\ UNCHANGED <<blob, pj, rq, hv>>

\* the read path returns to its caller
ReadReturn(p) ==
    /\ rd[p].pc = "ret"
    /\ rd' = [rd EXCEPT ![p].pc = "done", ![p].out = PathResult(rd[p].path, rd[p].r)]
    /\ UNCHANGED <<blob, pj, rq, hv>>

\* another task puts the blob
BlobPut ==
    /\ \E b \in Backends, data \in Bytes :
         /\ blob[b] # data
         /\ blob' = [blob EXCEPT ![b] = data]
    /\ UNCHANGED <<rd, pj, rq, hv>>

\* delete(key) (examples/clean_cache.rs), or the file is removed from the disk
BlobDelete ==
    /\ \E b \in Backends :
         /\ blob[b] # NoBlob
         /\ blob' = [blob EXCEPT ![b] = NoBlob]
    /\ UNCHANGED <<rd, pj, rq, hv>>

InitRead == blob \in [Backends -> {NoBlob, "b1"}] /\ rd = [p \in Procs |-> RdIdle]

ReadUnused == blob = [b \in Backends |-> NoBlob] /\ rd = [p \in Procs |-> RdIdle]

(***************************************************************************)
(* src/private_jets_in_time.rs                                             *)
(* Dates are day numbers, day 0 being 2019-01-01.                          *)
(***************************************************************************)
\* the largest number of snapshots of the aircraft database
MaxSnapshots == 3

\* `date!(1900 - 01 - 01)`, the initial value of the fold of closest_date
Sentinel == -43464

\* the first days of the months of the requested year: January, February, March
MonthStart == <<0, 31, 59>>
JetMonths == 1..Len(MonthStart)

\* the dates a snapshot of the aircraft database may carry
SnapshotDays == {30, 32, 58, 60}

\* the private jets of a snapshot, after the country and the model filters
SnapshotJets == {{}, {10}}

Abs(x) == IF x < 0 THEN -x ELSE x

\* the orders in which a hash map may enumerate the keys S
Enumerations(S) ==
    {s \in [1..Cardinality(S) -> S] : \A i, j \in 1..Cardinality(S) : s[i] = s[j] => i = j}

RECURSIVE Fold(_, _, _)
\* `dates.fold(init, |a, b| ((a - target).abs() < (b - target).abs()).then(|| a).unwrap_or(b))`
Fold(a, dates, target) ==
    IF dates = <<>> THEN a
    ELSE Fold(IF Abs(a - target) < Abs(Head(dates) - target) THEN a ELSE Head(dates),
              Tail(dates), target)

closest_date(dates, target) == Fold(Sentinel, dates, target)

\* the months of the requested year before the first of the current month
MonthsBefore(now) == {m \in JetMonths : MonthStart[m] < now}

\* private_jets_in_month: (icao, month) -> the aircraft of the snapshot closest
\* to the first of the month; keys enumerates `private_jets.keys()`; an aircraft
\* is identified by its icao number and the snapshot it comes from
private_jets_in_month(keys, jets, now) ==
    [k \in UNION {{<<icao, m>> : icao \in jets[closest_date(keys, MonthStart[m])]}
                    : m \in MonthsBefore(now)}
        |-> <<k[1], closest_date(keys, MonthStart[k[2]])>>]

NoRun == [pc |-> "idle", keys |-> <<>>, now |-> 0, out |-> <<>>]
NoClosest == [dates |-> <<>>, target |-> 0, result |-> Sentinel]

\* the first of the current month: February, March or April of the requested year
Nows == {31, 59, 90}

\* one run of private_jets_in_month: the hash map enumerates its keys in some
\* order, the clock gives some current month; the second run follows the first
JetsRun(i) ==
    /\ pj.run[i].pc = "idle"
    /\ pj.cd = NoClosest
    /\ i = 2 => pj.run[1].pc = "done"
    /\ \E keys \in Enumerations(DOMAIN pj.jets), now \in Nows :
         pj' = [pj EXCEPT !.run[i] =
                  [pc |-> "done", keys |-> keys, now |-> now,
                   out |-> private_jets_in_month(keys, pj.jets, now)]]
    /\ UNCHANGED <<blob, rd, rq, hv>>

\* the targets of closest_date: the first of a month of the requested year; the
\* years are an argument of private_jets_in_month, so also February 1900
ClosestTargets == {MonthStart[m] : m \in JetMonths} \cup {Sentinel + 31}

\* one call of closest_date on the snapshot dates, in some order of enumeration
ClosestDate ==
    /\ pj.cd = NoClosest
    /\ pj.run[1].pc = "idle"
    /\ \E dates \in Enumerations(DOMAIN pj.jets), target \in ClosestTargets :
         pj' = [pj EXCEPT !.cd = [dates |-> dates, target |-> target,
                                  result |-> closest_date(dates, target)]]
    /\ UNCHANGED <<blob, rd, rq, hv>>

InitJets ==
    \E S \in SUBSET SnapshotDays :
        /\ S # {} /\ Cardinality(S) <= MaxSnapshots
        /\ pj \in {[jets |-> j, run |-> <<NoRun, NoRun>>, cd |-> NoClosest] :
                     j \in [S -> SnapshotJets]}

JetsUnused ==
    pj = [jets |-> <<>>, run |-> <<NoRun, NoRun>>, cd |-> NoClosest]

(***************************************************************************)
(* src/trace_month.rs (month_positions, aircraft_positions), src/lib.rs    *)
(* (DateIter), src/icao_to_trace.rs (cached_aircraft_positions)            *)
(* A month has MaxDay days.                                                *)
(***************************************************************************)
\* the months a range query may touch, and the day the queries are made
RangeMonths == {Date(2023, 12, 1), Date(2024, 1, 1), Date(2024, 2, 1)}
RangeNow == Date(2024, 1, 2)
RangeDays == {Date(m.year, m.month, d) : m \in RangeMonths, d \in 1..MaxDay}

\* Position: the date and the time of day of datetime()
Position(date, t) == [date |-> date, t |-> t]

\* the key of `sort_unstable_by_key(|p| p.datetime())`
datetime(p) == Ordinal(p.date) * 2 + p.t

\* `from_calendar_date(x.year(), x.month(), 1)`
first_of_month(x) == Date(x.year, x.month, 1)

\* `self.from.saturating_add(self.increment)` with an increment of one day
next_day(d) ==
    IF d.day < MaxDay THEN Date(d.year, d.month, d.day + 1) ELSE first_of_next_month(d)

DateIterDone_Inclusive(date_from, date_to) == Ordinal(date_from) > Ordinal(date_to)

\* DateIter::next: `if self.from >= self.to { return None; }`
DateIterDone(date_from, date_to) == Ordinal(date_from) >= Ordinal(date_to)

RECURSIVE DateIter(_, _)
\* the items of DateIter { from, to, increment: days(1) }
DateIter(date_from, date_to) ==
    IF DateIterDone(date_from, date_to) THEN <<>>
    ELSE <<date_from>> \o DateIter(next_day(date_from), date_to)

\* positions(icao, date, client): the trace of one day as the provider gives it,
\* not ordered by time; quiet is the set of days without a position
DayTrace(quiet, date) ==
    IF date \in quiet \/ Ordinal(date) > Ordinal(RangeNow) THEN <<>>
    ELSE <<Position(date, 1), Position(date, 0)>>

RECURSIVE Flatten(_)
\* `.into_iter().flatten()`
Flatten(ss) == IF ss = <<>> THEN <<>> ELSE Head(ss) \o Flatten(Tail(ss))

RECURSIVE InsertByDatetime(_, _)
InsertByDatetime(p, s) ==
    IF s = <<>> THEN <<p>>
    ELSE IF datetime(p) <= datetime(Head(s)) THEN <<p>> \o s
    ELSE <<Head(s)>> \o InsertByDatetime(p, Tail(s))

sort_unstable_by_key_Skip(ps) == ps

RECURSIVE sort_unstable_by_key(_)
\* `positions.sort_unstable_by_key(|p| p.datetime())`
sort_unstable_by_key(ps) ==
    IF ps = <<>> THEN <<>>
    ELSE InsertByDatetime(Head(ps), sort_unstable_by_key(Tail(ps)))

\* serde_json::to_writer(&mut bytes, &positions): an array of the fields
to_writer(ps) ==
    [i \in 1..Len(ps) |->
        <<ps[i].date.year, ps[i].date.month, ps[i].date.day,
          ps[i].t>>]

\* serde_json::from_slice(&r)
from_slice(bytes) ==
    [i \in 1..Len(bytes) |-> Position(Date(bytes[i][1], bytes[i][2], bytes[i][3]), bytes[i][4])]

\* the fetch of month_positions: the days of the month, flattened and sorted
month_fetch(quiet, month) ==
    LET days == DateIter(month, first_of_next_month(month))
        ps == Flatten([i \in 1..Len(days) |-> DayTrace(quiet, days[i])])
    IN to_writer(sort_unstable_by_key(ps))

\* month_positions(icao, month, client) on the store of month blobs (an
\* Option: <<>> when the key is absent, <<bytes>> otherwise): whether cached_call
\* hit, the blob of the month afterwards, and the positions returned
month_positions(quiet, store, month) ==
    IF store[month] # <<>>
      THEN [hit |-> TRUE, blob |-> store[month], positions |-> from_slice(store[month][1])]
      ELSE LET bytes == month_fetch(quiet, month) IN
           [hit |-> FALSE,
            blob |-> IF NoWrite(month_action(month, RangeNow), TRUE) THEN <<>> ELSE <<bytes>>,
            positions |-> from_slice(bytes)]

\* `.filter(|p| (p.datetime().date() >= from) && (p.datetime().date() < to))`
InRange(p, date_from, date_to) ==
    Ordinal(p.date) >= Ordinal(date_from) /\ Ordinal(p.date) < Ordinal(date_to)

RqIdle(quiet) ==
    [pc |-> "idle", quiet |-> quiet, store |-> [m \in RangeMonths |-> <<>>],
     from |-> RangeNow, to |-> RangeNow, calls |-> [m \in RangeMonths |-> 0],
     monthly |-> <<>>, result |-> <<>>]

\* aircraft_positions(from, to, icao, client): the months of the days of
\* DateIter collected in a HashSet, month_positions for each of them in the
\* order the set enumerates them, the union filtered and sorted
AircraftPositions ==
    /\ \E date_from \in RangeDays, date_to \in RangeDays :
         LET dates == DateIter(date_from, date_to)
             months == {first_of_month(dates[i]) : i \in 1..Len(dates)}
         IN \E tasks \in Enumerations(months) :
              LET monthly == [m \in months |-> month_positions(rq.quiet, rq.store, m)]
                  ps == Flatten([i \in 1..Len(tasks) |-> monthly[tasks[i]].positions])
              IN rq' = [rq EXCEPT
                          !.pc = "done", !.from = date_from, !.to = date_to,
                          !.calls = [m \in RangeMonths |->
                                       Cardinality({i \in 1..Len(tasks) : tasks[i] = m})],
                          !.monthly = monthly,
                          !.store = [m \in RangeMonths |->
                                       IF m \in months THEN monthly[m].blob ELSE @[m]],
                          !.result = sort_unstable_by_key(
                              SelectSeq(ps, LAMBDA p : InRange(p, date_from, date_to)))]
    /\ UNCHANGED <<blob, rd, pj, hv>>

\* the provider has positions for every day, or for every day but one
InitRange ==
    \E quiet \in {{}, {Date(2023, 12, 1)}, {Date(2024, 1, 1)}} : rq = RqIdle(quiet)

RangeUnused == rq = RqIdle({})

(***************************************************************************)
(* src/trace_month.rs (blob_name_to_pk, pk_to_blob_name), src/serde.rs     *)
(* and src/bin/etl_legs.rs (pk_to_blob_name, blob_name_to_pk)              *)
(* A string is the sequence of its characters.                             *)
(***************************************************************************)
\* the longest icao number of the model and the characters it is made of
MaxIcaoLen == 2
IcaoChars == {"a", "4"}
HiveYears == {2019, 2024}

DigitChars == <<"0", "1", "2", "3", "4", "5", "6", "7", "8", "9">>

\* the string literals of the two layouts
PositionDatabase == <<"p", "o", "s", "i", "t", "i", "o", "n", "/">>
LegDatabase == <<"l", "e", "g", "/", "v", "2", "/", "d", "a", "t", "a", "/">>
IcaoNumberEq == <<"i", "c", "a", "o", "_", "n", "u", "m", "b", "e", "r", "=">>
MonthEq == <<"m", "o", "n", "t", "h", "=">>
DataJson == <<"/", "d", "a", "t", "a", ".", "j", "s", "o", "n">>
DataCsv == <<"d", "a", "t", "a", ".", "c", "s", "v">>
Slash == <<"/">>

\* the outcome of an expression that panics (a failed parse, unwrap or slice),
\* as a string, as a date, as a map and as a key
Panic == <<"panic">>
PanicDate == [year |-> 0, month |-> 0, day |-> 0]
PanicMap == {<<Panic, Panic>>}
PanicPk == [icao |-> Panic, month |-> PanicDate]

RECURSIVE Display(_)
\* `{}` of a non-negative integer
Display(n) ==
    IF n < 10 THEN <<DigitChars[n + 1]>>
    ELSE Display(n \div 10) \o <<DigitChars[(n % 10) + 1]>>

Pad2_None(n) == Display(n)

\* `{:02}` of a non-negative integer
Pad2(n) == IF n < 10 THEN <<"0">> \o Display(n) ELSE Display(n)

\* month_to_part: `format!("{}-{:02}", date.year(), date.month() as u8)`
month_to_part(date) == Display(date.year) \o <<"-">> \o Pad2(date.month)

\* `&s[a..b]`; Panic when the range is not within the string
Slice(s, a, b) == IF a <= b /\ b <= Len(s) THEN SubSeq(s, a + 1, b) ELSE Panic

\* `s.find(c)`: the index of the first c, -1 for None
Find(s, c) ==
    IF \E i \in 1..Len(s) : s[i] = c
      THEN (CHOOSE i \in 1..Len(s) : s[i] = c /\ \A j \in 1..(i - 1) : s[j] # c) - 1
      ELSE -1

IsDigits(s) ==
    s # Panic /\ s # <<>> /\ \A i \in 1..Len(s) : \E d \in 1..10 : DigitChars[d] = s[i]

RECURSIVE Parse(_)
\* `s.parse()` of a string of digits; -1 when it is not one (the caller unwraps)
Parse(s) ==
    IF ~IsDigits(s) THEN -1
    ELSE LET d == (CHOOSE k \in 1..10 : DigitChars[k] = s[Len(s)]) - 1 IN
         IF Len(s) = 1 THEN d ELSE Parse(SubSeq(s, 1, Len(s) - 1)) * 10 + d

\* `Date::from_calendar_date(date[..4].parse().., date[5..7].parse::<u8>()..try_into().., 1)`
parse_month(date) ==
    IF date = Panic THEN PanicDate
    ELSE LET y == Parse(Slice(date, 0, 4))
             m == Parse(Slice(date, 5, 7))
         IN IF y < 0 \/ m < 1 \/ m > 12 THEN PanicDate ELSE Date(y, m, 1)

\* trace_month.rs pk_to_blob_name: "{prefix}icao_number={icao}/month={}/data.json"
position_pk_to_blob_name(prefix, icao, date) ==
    prefix \o IcaoNumberEq \o icao \o Slash \o MonthEq \o month_to_part(date) \o DataJson

\* trace_month.rs blob_name_to_pk
position_blob_name_to_pk(prefix, blob_name) ==
    LET bla == Slice(blob_name, Len(prefix) + Len(IcaoNumberEq), Len(blob_name)) IN
    IF bla = Panic \/ Find(bla, "/") = -1 THEN PanicPk
    ELSE LET end == Find(bla, "/")
             icao == Slice(bla, 0, end)
             date_start == end + Len(Slash \o MonthEq)
             date == Slice(bla, date_start, date_start + 7)
         IN IF icao = Panic \/ parse_month(date) = PanicDate THEN PanicPk
            ELSE [icao |-> icao, month |-> parse_month(date)]

\* etl_legs.rs pk_to_blob_name: "{DATABASE}month={month}/icao_number={icao}/data.csv"
leg_pk_to_blob_name(icao, month) ==
    LegDatabase \o MonthEq \o month_to_part(month) \o Slash \o IcaoNumberEq \o icao
        \o Slash \o DataCsv

RECURSIVE hive_to_map(_, _)
\* serde.rs hive_to_map, a the map built so far: a set of <<key, value>> in
\* which an insert replaces the value of its key
hive_to_map(blob_name, a) ==
    IF blob_name = <<>> THEN a
    ELSE IF Find(blob_name, "=") = -1 THEN PanicMap
    ELSE LET position == Find(blob_name, "=")
             key == Slice(blob_name, 0, position)
             rest == Slice(blob_name, position + 1, Len(blob_name))
             end == IF Find(rest, "/") = -1 THEN Len(rest) ELSE Find(rest, "/")
             value == Slice(rest, 0, end)
         IN IF Slice(rest, end + 1, Len(rest)) = Panic THEN PanicMap
            ELSE hive_to_map(Slice(rest, end + 1, Len(rest)),
                             {kv \in a : kv[1] # key} \cup {<<key, value>>})

\* `*keys.get(key).unwrap()`
MapGet(keys, key) ==
    IF keys = PanicMap \/ ~\E kv \in keys : kv[1] = key THEN Panic
    ELSE (CHOOSE kv \in keys : kv[1] = key)[2]

\* etl_legs.rs blob_name_to_pk
leg_blob_name_to_pk(blob_name) ==
    LET part == Slice(blob_name, Len(LegDatabase), Len(blob_name) - Len(DataCsv))
        keys == IF part = Panic THEN PanicMap ELSE hive_to_map(part, {})
        icao == MapGet(keys, SubSeq(IcaoNumberEq, 1, Len(IcaoNumberEq) - 1))
        date == MapGet(keys, SubSeq(MonthEq, 1, Len(MonthEq) - 1))
    IN IF icao = Panic \/ parse_month(date) = PanicDate THEN PanicPk
       ELSE [icao |-> icao, month |-> parse_month(date)]

NoName == [pc |-> "pk", blob |-> <<>>, pk |-> PanicPk]

HvIdle(icao, month) == [icao |-> icao, month |-> month, position |-> NoName, leg |-> NoName]

\* month_positions / get_month_positions name the position blob of a key
PositionEncode ==
    /\ hv.position.pc = "pk"
    /\ hv' = [hv EXCEPT !.position.pc = "blob",
                        !.position.blob =
                            position_pk_to_blob_name(PositionDatabase, hv.icao, hv.month)]
    /\ UNCHANGED <<blob, rd, pj, rq>>

\* list maps blob_name_to_pk over the names the back-end lists
PositionDecode ==
    /\ hv.position.pc = "blob"
    /\ hv' = [hv EXCEPT !.position.pc = "decoded",
                        !.position.pk =
                            position_blob_name_to_pk(PositionDatabase, hv.position.blob)]
    /\ UNCHANGED <<blob, rd, pj, rq>>

\* write / read name the leg blob of a key
LegEncode ==
    /\ hv.leg.pc = "pk"
    /\ hv' = [hv EXCEPT !.leg.pc = "blob",
                        !.leg.blob = leg_pk_to_blob_name(hv.icao, hv.month)]
    /\ UNCHANGED <<blob, rd, pj, rq>>

\* list maps blob_name_to_pk over the names the back-end lists
LegDecode ==
    /\ hv.leg.pc = "blob"
    /\ hv' = [hv EXCEPT !.leg.pc = "decoded", !.leg.pk = leg_blob_name_to_pk(hv.leg.blob)]
    /\ UNCHANGED <<blob, rd, pj, rq>>

\* the icao numbers: the non-empty strings of at most MaxIcaoLen characters
Icaos == UNION {[1..n -> IcaoChars] : n \in 1..MaxIcaoLen}

InitHive ==
    \E icao \in Icaos, y \in HiveYears, m \in 1..12 : hv = HvIdle(icao, Date(y, m, 1))

HiveUnused == hv = HvIdle(<<"a">>, Date(2019, 1, 1))

(***************************************************************************)
(* src/bin/etl_positions.rs (main) and src/trace_month.rs (month_positions) *)
(* The task stream of the position ETL: StageMonths keys are todo, a month  *)
(* has StageDays days; a daily fetch holds one request while it runs.       *)
(***************************************************************************)
StageMonths == 3
StageDays == 5
\* month_positions: `.buffered(5)` over the daily fetches of the month
DailyBuffered == 5

StageTasks == 1..StageMonths

StageTodo == [pc |-> "todo", started |-> 0, finished |-> 0]

\* the month_positions calls that main's stream is polling
StageRunning == {i \in StageTasks : stage[i].pc = "running"}

\* the daily fetches of task i that have started and not returned
DailyInFlight(i) == IF stage[i].pc = "running" THEN stage[i].started - stage[i].finished ELSE 0

RECURSIVE StageSum(_)
StageSum(n) == IF n = 0 THEN 0 ELSE StageSum(n - 1) + DailyInFlight(n)

\* the requests in flight in the whole stage
StageInFlight == StageSum(StageMonths)

\* main: `stream::iter(tasks).buffered(10)`: the next month_positions of todo
\* starts while fewer than 10 run; its key is in no back-end, so it misses
StageTaskStart(i) ==
    /\ stage[i].pc = "todo"
    /\ \A j \in 1..(i - 1) : stage[j].pc # "todo"
    /\ Cardinality(StageRunning) < PositionBuffered
    /\ stage' = [stage EXCEPT ![i].pc = "running"]
    /\ UNCHANGED legRows

\* month_positions: `stream::iter(tasks).buffered(5)`: the fetch of the next day
\* starts while fewer than 5 of this month run
DailyStart(i) ==
    /\ stage[i].pc = "running"
    /\ stage[i].started < StageDays
    /\ DailyInFlight(i) < DailyBuffered
    /\ stage' = [stage EXCEPT ![i].started = @ + 1]
    /\ UNCHANGED legRows

\* month_positions: a daily fetch returns; `try_collect` ends the stream at the
\* first error and drops the fetches still running
DailyFinish(i) ==
    /\ stage[i].pc = "running"
    /\ stage[i].finished < stage[i].started
    /\ \E io_ok \in BOOLEAN :
         IF io_ok
           THEN stage' = [stage EXCEPT ![i].finished = @ + 1]
           ELSE stage' = [stage EXCEPT ![i].pc = "failed",
                                       ![i].finished = stage[i].started]
    /\ UNCHANGED legRows

\* month_positions: every day is collected, the month is sorted and returned
StageTaskFinish(i) ==
    /\ stage[i].pc = "running"
    /\ stage[i].finished = StageDays
    /\ stage' = [stage EXCEPT ![i].pc = "ok"]
    /\ UNCHANGED legRows

InitStage == stage = [i \in StageTasks |-> StageTodo]

StageUnused == stage = <<>>

(***************************************************************************)
(* src/bin/etl_legs.rs (transform)                                         *)
(* Times are in seconds: an hour value is the number of seconds over 3600. *)
(***************************************************************************)
Above30000 == 30000
Above40000 == 40000

RECURSIVE hours_above_AtOrAbove(_, _)
hours_above_AtOrAbove(ps, feet) ==
    IF Len(ps) < 2 THEN 0
    ELSE (IF altitude(ps[1]) >= feet /\ altitude(ps[2]) >= feet
            THEN ps[2].t - ps[1].t ELSE 0)
         + hours_above_AtOrAbove(Tail(ps), feet)

RECURSIVE hours_above(_, _)
\* `leg.positions().windows(2).filter_map(|w| (w[0].altitude() > X &&
\* w[1].altitude() > X).then(|| w[1].datetime() - w[0].datetime())).sum()`
hours_above(ps, feet) ==
    IF Len(ps) < 2 THEN 0
    ELSE (IF altitude(ps[1]) > feet /\ altitude(ps[2]) > feet
            THEN ps[2].t - ps[1].t ELSE 0)
         + hours_above(Tail(ps), feet)

\* transform: the LegOut of a leg (the columns that depend on time and altitude)
LegOut(leg) ==
    [start |-> from(leg).t,
     start_altitude |-> altitude(from(leg)),
     end |-> to(leg).t,
     end_altitude |-> altitude(to(leg)),
     hours_above_30000 |-> hours_above(leg, Above30000),
     hours_above_40000 |-> hours_above(leg, Above40000)]

\* one next() on the iterator returned by transform: `legs(positions).map(..)`
TransformNext ==
    /\ FacadeNext
    /\ legRows' = [i \in 1..Len(out') |-> LegOut(out'[i])]
    /\ UNCHANGED stage

GapsTransform == {1, FiveMinutes + 1}
AltsTransform == {NoAlt, Above30000, Above30000 + 1, Above40000, Above40000 + 1}

\* transform(icao, aircraft, positions) on time-ordered positions, each
\* MinDistance + 1 km further than the one before
InitTransform ==
    /\ \E n \in 0..MaxLen :
         \E g \in [2..n -> GapsTransform], a \in [1..n -> AltsTransform] :
             InitLegsOn(InputOf(n, g, a, [i \in 1..n |-> i * (MinDistance + 1)]))
    /\ legRows = <<>>

ExtUnused == StageUnused /\ legRows = <<>>

AuxUnused == ReadUnused /\ JetsUnused /\ RangeUnused /\ HiveUnused /\ ExtUnused

Init == InitCache /\ today = LastDate /\ LegsUnused /\ InitEtl /\ TraceUnused /\ AuxUnused

Next == NextCache

Spec == Init /\ [][Next]_vars

\* callers of positions only, the clock starting before or on the requested date
InitSpecPositions == InitCache /\ LegsUnused /\ InitEtl /\ TraceUnused /\ AuxUnused

NextPositions ==
    \/ (\E p \in Procs : Positions(p)) /\ UNCHANGED <<legVars, etlVars, traceVars, auxVars, extVars>>
    \/ (\E p \in Procs : Read1(p)) /\ UNCHANGED <<legVars, etlVars, traceVars, auxVars, extVars>>
    \/ (\E p \in Procs : Read2(p)) /\ UNCHANGED <<legVars, etlVars, traceVars, auxVars, extVars>>
    \/ (\E p \in Procs : Fetch(p)) /\ UNCHANGED <<legVars, etlVars, traceVars, auxVars, extVars>>
    \/ (\E p \in Procs : Put(p)) /\ UNCHANGED <<legVars, etlVars, traceVars, auxVars, extVars>>
    \/ (\E p \in Procs : Return(p)) /\ UNCHANGED <<legVars, etlVars, traceVars, auxVars, extVars>>
    \/ AdvanceDay /\ UNCHANGED <<legVars, etlVars, traceVars, auxVars, extVars>>

SpecPositions == InitSpecPositions /\ [][NextPositions]_vars

CacheUnused ==
    /\ InitCache
    /\ canPut = TRUE
    /\ today = LastDate

\* the Legs iterator on every input up to MaxLen
InitSpecLegs == InitLegs /\ CacheUnused /\ InitEtl /\ TraceUnused /\ AuxUnused

NextLegs == LegsNext /\ UNCHANGED <<cacheVars, etlVars, traceVars, auxVars, extVars>>

SpecLegs == InitSpecLegs /\ [][NextLegs]_vars

\* the legs() facade on every input up to MaxLen
InitSpecFacade == InitFacade /\ CacheUnused /\ InitEtl /\ TraceUnused /\ AuxUnused

NextFacade == FacadeNext /\ UNCHANGED <<cacheVars, etlVars, traceVars, auxVars, extVars>>

SpecFacade == InitSpecFacade /\ [][NextFacade]_vars

\* the position ETL and the leg ETL, run one after the other in any order
InitSpecEtl == InitEtl /\ CacheUnused /\ LegsUnused /\ TraceUnused /\ AuxUnused

SpecEtl == InitSpecEtl /\ [][NextEtl]_vars

\* one positions call against the provider
InitSpecTrace == InitTrace /\ MonthUnused /\ CacheUnused /\ LegsUnused /\ InitEtl /\ AuxUnused

NextTrace ==
    \/ TracePositions /\ UNCHANGED <<cacheVars, legVars, etlVars, auxVars, extVars>>
    \/ TraceSend /\ UNCHANGED <<cacheVars, legVars, etlVars, auxVars, extVars>>
    \/ TraceRespond /\ UNCHANGED <<cacheVars, legVars, etlVars, auxVars, extVars>>
    \/ TraceMiss /\ UNCHANGED <<cacheVars, legVars, etlVars, auxVars, extVars>>
    \/ TraceCompute /\ UNCHANGED <<cacheVars, legVars, etlVars, auxVars, extVars>>

SpecTrace == InitSpecTrace /\ [][NextTrace]_vars

\* month_positions on every month and every day of MonthYears
InitSpecMonth == InitMonth /\ tr = TrIdle(FALSE) /\ CacheUnused /\ LegsUnused /\ InitEtl /\ AuxUnused

NextMonth ==
    \/ MonthPositions /\ UNCHANGED <<cacheVars, legVars, etlVars, auxVars, extVars>>
    \/ MonthMiss /\ UNCHANGED <<cacheVars, legVars, etlVars, auxVars, extVars>>

SpecMonth == InitSpecMonth /\ [][NextMonth]_vars

\* the cache on a back-end whose credentials may lack the right to write
InitSpecAuth == CacheUnused /\ LegsUnused /\ InitEtl /\ TraceUnused /\ AuxUnused

NextAuth ==
    \/ NextCache
    \/ (\E p \in Procs : PutDenied(p)) /\ UNCHANGED <<legVars, etlVars, traceVars, auxVars, extVars>>

SpecAuth == InitSpecAuth /\ [][NextAuth]_vars

\* readers of one key, with a task that puts it and one that deletes it
InitSpecRead ==
    InitRead /\ JetsUnused /\ RangeUnused /\ HiveUnused
        /\ CacheUnused /\ LegsUnused /\ InitEtl /\ TraceUnused /\ ExtUnused

NextRead ==
    \/ (\E p \in Procs : ReadStart(p)) /\ UNCHANGED <<cacheVars, legVars, etlVars, traceVars, extVars>>
    \/ (\E p \in Procs : ReadExists(p)) /\ UNCHANGED <<cacheVars, legVars, etlVars, traceVars, extVars>>
    \/ (\E p \in Procs : ReadGet(p)) /\ UNCHANGED <<cacheVars, legVars, etlVars, traceVars, extVars>>
    \/ (\E p \in Procs : ReadReturn(p)) /\ UNCHANGED <<cacheVars, legVars, etlVars, traceVars, extVars>>
    \/ BlobPut /\ UNCHANGED <<cacheVars, legVars, etlVars, traceVars, extVars>>
    \/ BlobDelete /\ UNCHANGED <<cacheVars, legVars, etlVars, traceVars, extVars>>

SpecRead == InitSpecRead /\ [][NextRead]_vars

\* two runs of private_jets_in_month on one set of snapshots
InitSpecJets ==
    InitJets /\ ReadUnused /\ RangeUnused /\ HiveUnused
        /\ CacheUnused /\ LegsUnused /\ InitEtl /\ TraceUnused /\ ExtUnused

NextJets ==
    \/ (\E i \in 1..2 : JetsRun(i)) /\ UNCHANGED <<cacheVars, legVars, etlVars, traceVars, extVars>>
    \/ ClosestDate /\ UNCHANGED <<cacheVars, legVars, etlVars, traceVars, extVars>>

SpecJets == InitSpecJets /\ [][NextJets]_vars

\* range queries of one aircraft, one after the other
InitSpecRange ==
    InitRange /\ ReadUnused /\ JetsUnused /\ HiveUnused
        /\ CacheUnused /\ LegsUnused /\ InitEtl /\ TraceUnused /\ ExtUnused

NextRange ==
    \/ AircraftPositions /\ UNCHANGED <<cacheVars, legVars, etlVars, traceVars, extVars>>

SpecRange == InitSpecRange /\ [][NextRange]_vars

\* the names of the position blob and of the leg blob of one (icao, month)
InitSpecHive ==
    InitHive /\ ReadUnused /\ JetsUnused /\ RangeUnused
        /\ CacheUnused /\ LegsUnused /\ InitEtl /\ TraceUnused /\ ExtUnused

NextHive ==
    \/ PositionEncode /\ UNCHANGED <<cacheVars, legVars, etlVars, traceVars, extVars>>
    \/ PositionDecode /\ UNCHANGED <<cacheVars, legVars, etlVars, traceVars, extVars>>
    \/ LegEncode /\ UNCHANGED <<cacheVars, legVars, etlVars, traceVars, extVars>>
    \/ LegDecode /\ UNCHANGED <<cacheVars, legVars, etlVars, traceVars, extVars>>

SpecHive == InitSpecHive /\ [][NextHive]_vars

\* the task stream of the position ETL, with the daily fetches of every month
InitSpecStage ==
    InitStage /\ legRows = <<>> /\ ReadUnused /\ JetsUnused /\ RangeUnused /\ HiveUnused
        /\ CacheUnused /\ LegsUnused /\ InitEtl /\ TraceUnused

NextStage ==
    \/ (\E i \in StageTasks : StageTaskStart(i)) /\ UNCHANGED <<cacheVars, legVars, etlVars, traceVars, auxVars>>
    \/ (\E i \in StageTasks : DailyStart(i)) /\ UNCHANGED <<cacheVars, legVars, etlVars, traceVars, auxVars>>
    \/ (\E i \in StageTasks : DailyFinish(i)) /\ UNCHANGED <<cacheVars, legVars, etlVars, traceVars, auxVars>>
    \/ (\E i \in StageTasks : StageTaskFinish(i)) /\ UNCHANGED <<cacheVars, legVars, etlVars, traceVars, auxVars>>

SpecStage == InitSpecStage /\ [][NextStage]_vars

\* the rows of transform on every input up to MaxLen
InitSpecTransform ==
    InitTransform /\ StageUnused /\ ReadUnused /\ JetsUnused /\ RangeUnused /\ HiveUnused
        /\ CacheUnused /\ InitEtl /\ TraceUnused

NextTransform == TransformNext /\ UNCHANGED <<cacheVars, etlVars, traceVars, auxVars>>

SpecTransform == InitSpecTransform /\ [][NextTransform]_vars

(***************************************************************************)
(* Properties of the content cache                                         *)
(***************************************************************************)
\* the invocations on key k that C1 speaks of: ReadFetchWrite only, writable back-end
C1_Scope(k) == canPut /\ onlyRFW[k]

C2_FetchedOnce ==
    \A p \in Procs :
        (canPut /\ call[p].pc # "idle" /\ call[p].action = "ReadFetchWrite"
                /\ call[p].afterOk) =>
            /\ remote[call[p].key] # NoBlob
            /\ call[p].pc \in {"read1", "done"}
            /\ ~call[p].fetched
            /\ call[p].pc = "done" => call[p].data \in Bytes

\* C2 witness: a later call for a past date has been served after an earlier Ok
C2_Witness ==
    \E p \in Procs :
        /\ canPut /\ call[p].action = "ReadFetchWrite" /\ call[p].afterOk
        /\ call[p].key < today /\ call[p].pc = "done"

\* the invocation p has returned Ok
ReturnedOk(p) == call[p].pc = "done" /\ call[p].data \in Bytes

\* C15 as stated: a cached_call with action FetchWrite evaluates fetch on every
\* invocation, also when the key is present, returns the fetched bytes and, when
\* the back-end is writable, leaves the key written.
C15_FetchWriteAlwaysFetches ==
    \A p \in Procs :
        (call[p].action = "FetchWrite" /\ ReturnedOk(p)) =>
            /\ call[p].fetched
            /\ canPut => remote[call[p].key] # NoBlob

\* C16: an invocation of cached_call, and of cached within it, with action
\* ReadFetch never reaches the put, and none of its steps changes the blobs of the configured
\* back-end or of the local disk, whether it hits or misses.
C16_ReadFetchNeverPuts ==
    /\ [](\A p \in Procs : call[p].action = "ReadFetch" => call[p].pc # "put")
    /\ [][\A p \in Procs :
            (call[p].action = "ReadFetch" /\ call'[p] # call[p]) =>
                (remote' = remote /\ local' = local)]_vars

\* C16 witness: a ReadFetch invocation missed, fetched and returned on a writable back-end
C16_Witness ==
    \E p \in Procs :
        /\ call[p].action = "ReadFetch" /\ ReturnedOk(p) /\ call[p].fetched
        /\ ProviderCanPut(call[p].provider)

\* C17: when cached reads (ReadFetchWrite or ReadFetch) and the back-end holds
\* the key, the step returns exactly the stored bytes, without a fetch and
\* without changing any blob.
C17_HitReturnsStored ==
    [][\A p \in Procs :
          (/\ call[p].pc = "read2" /\ call'[p] # call[p]
           /\ StoreOf(call[p].provider)[call[p].key] # NoBlob) =>
              /\ call[p].action \in {"ReadFetchWrite", "ReadFetch"}
              /\ call'[p].pc = "done"
              /\ call'[p].data = StoreOf(call[p].provider)[call[p].key]
              /\ ~call'[p].fetched
              /\ remote' = remote /\ local' = local]_vars

\* C17 witness: cached, invoked after the read of cached_call missed, was served
\* from its back-end
C17_Witness ==
    \E p \in Procs :
        /\ call[p].provider # "none" /\ ReturnedOk(p) /\ ~call[p].fetched
        /\ call[p].data = StoreOf(call[p].provider)[call[p].key]

\* C18: every positions(icao, date) call uses from_date(date): ReadFetch when date >= today
\* and ReadFetchWrite when date < today; so a trace blob is put only for a date
\* before today, and a call for a past date that missed and fetched leaves the
\* blob written.
C18_FromDate ==
    /\ [](\A p \in Procs : call[p].pc # "idle" =>
            /\ call[p].action = "ReadFetchWrite" => call[p].key < today
            /\ call[p].pc = "put" => call[p].key < today
            /\ (call[p].action = "ReadFetchWrite" /\ ReturnedOk(p) /\ call[p].fetched) =>
                  StoreOf(call[p].provider)[call[p].key] # NoBlob)
    /\ [][\A p \in Procs :
            (call[p].pc = "idle" /\ call'[p].pc # "idle") =>
                call'[p].action = IF call'[p].key >= today THEN "ReadFetch"
                                                          ELSE "ReadFetchWrite"]_vars

\* C18 witness: a call for a past date missed, fetched and wrote the blob
C18_Witness ==
    \E p \in Procs :
        /\ call[p].action = "ReadFetchWrite"
        /\ ReturnedOk(p) /\ call[p].fetched /\ call[p].key < today

\* what C20 says of the invocations of cached_call on a read-only back-end,
\* the later invocations being those with an action of the set later
C20_Fallback(later) ==
    ~canPut =>
        /\ \A k \in Dates : remote[k] = NoBlob
        /\ \A p \in Procs :
              /\ (call[p].action \in {"ReadFetchWrite", "FetchWrite"}
                    /\ ReturnedOk(p) /\ call[p].fetched) =>
                    /\ call[p].provider = "local"
                    /\ local[call[p].key] \in Bytes
              /\ (call[p].afterLocal /\ call[p].action \in later) =>
                    /\ ~call[p].fetched
                    /\ call[p].pc \in {"read1", "read2", "done"}
                    /\ call[p].pc = "done" => call[p].data \in Bytes

\* C20 as stated: on a read-only back-end a miss with a write-allowing action
\* puts the fetch result on the local disk, never on the back-end, and a later
\* cached_call for the key (with any action) is served from the local disk
\* without a fetch.
C20_LaterCallServedLocally == C20_Fallback(CacheAction)

\* C20 amended: the same, the later cached_call being one whose action allows
\* reads (ReadFetchWrite or ReadFetch); a later FetchWrite fetches again.
C20_LaterReadServedLocally == C20_Fallback({"ReadFetchWrite", "ReadFetch"})

\* C20 witness: a later ReadFetchWrite call was served from the local disk
C20_Witness ==
    \E p \in Procs :
        /\ ~canPut /\ call[p].afterLocal
        /\ call[p].action = "ReadFetchWrite" /\ ReturnedOk(p)
        /\ call[p].data = local[call[p].key]

(***************************************************************************)
(* Properties of the trace client and of the month blob                    *)
(***************************************************************************)
\* globe_history has returned
Responded == tr.pc \in {"miss", "trace", "done"}

\* C11 as stated: when the final answer of the provider has a status other than
\* 200 or 404, globe_history returns an error, positions fails and no blob is
\* written for the response.
C11_OtherStatusIsError ==
    (Responded /\ tr.last.status \in {"403", "500"}) =>
        /\ ~tr.result.ok
        /\ tr.blob = "none"
        /\ tr.pc = "done" => tr.ret.res = "Err"

\* C12: when the provider answers 404, globe_history returns Ok with the
\* synthesized payload, whose trace is the empty array, and positions returns
\* Ok with no position.
C12_NotFoundIsEmptyTrace ==
    (Responded /\ tr.last.status = "404") =>
        /\ tr.result = Ok(NotFoundPayload)
        /\ tr.result.data.trace = "norows"
        /\ tr.pc = "done" => tr.ret = Rows("Ok", "none")

\* C12 witness: a positions call answered 404 has returned
C12_Witness == tr.pc = "done" /\ tr.last.status = "404" /\ tr.ret.res = "Ok"

\* a payload that is not an object with a numeric timestamp and an array trace
Malformed(data) ==
    ~(data.kind = "object" /\ data.timestamp = "number" /\ data.trace \in {"norows", "rows"})

\* C13 as stated: compute_trace returns Ok with zero rows on every malformed
\* payload, and neither an error nor a panic.
C13_MalformedIsEmpty ==
    (tr.pc = "done" /\ tr.result.ok /\ Malformed(tr.result.data)) =>
        tr.ret = Rows("Ok", "none")

\* C14 as stated: one globe_history call sends at most 5 requests, sends another
\* one only after a transient failure, and returns an error when the last
\* attempt failed transiently.
C14_AtMostFiveAttempts ==
    /\ tr.attempts <= MaxRetries
    /\ (tr.pc = "request" /\ tr.attempts > 0) => Transient(tr.last)
    /\ (Responded /\ Transient(tr.last)) => ~tr.result.ok

\* year and month of a date, as one number
YearMonth(d) == d.year * 12 + d.month

\* C19 as stated: month_positions uses ReadFetch exactly when the month is the
\* current month or a later one, and ReadFetchWrite, which writes the month
\* blob on a miss, for every month that ended before today.
C19_MonthAction ==
    mp.pc # "idle" =>
        /\ mp.action = "ReadFetch" <=> YearMonth(mp.month) >= YearMonth(mp.now)
        /\ mp.action = "ReadFetchWrite" <=> YearMonth(mp.month) < YearMonth(mp.now)
        /\ mp.pc = "done" => (mp.written <=> YearMonth(mp.month) < YearMonth(mp.now))

(***************************************************************************)
(* Properties of the leg identification                                    *)
(***************************************************************************)
RECURSIVE Concat(_)
Concat(ls) == IF ls = <<>> THEN <<>> ELSE Head(ls) \o Concat(Tail(ls))

RECURSIVE IsSubseq(_, _)
\* s is a subsequence of u
IsSubseq(s, u) ==
    IF s = <<>> THEN TRUE
    ELSE IF u = <<>> THEN FALSE
    ELSE IF Head(s) = Head(u) THEN IsSubseq(Tail(s), Tail(u))
    ELSE IsSubseq(s, Tail(u))

RECURSIVE ConcatShared(_)
\* the concatenation in which a position that ends one leg and starts the next is taken once
ConcatShared(ls) ==
    IF ls = <<>> THEN <<>>
    ELSE IF Len(ls) = 1 THEN Head(ls)
    ELSE IF to(ls[1]) = from(ls[2])
      THEN SubSeq(ls[1], 1, Len(ls[1]) - 1) \o ConcatShared(Tail(ls))
      ELSE ls[1] \o ConcatShared(Tail(ls))

Elems(s) == {s[i] : i \in 1..Len(s)}
Legs == Elems(emitted)
\* the iterator has returned None: every leg has been emitted
Exhausted == lastRet = "none"

\* C3 as stated: the concatenation of the emitted legs is a subsequence of the input
C3_ConcatIsSubsequence == IsSubseq(Concat(emitted), P)

\* C3 amended: every position of every leg is a position of the input (none is
\* invented), and the concatenation of the legs is a subsequence of the input
\* once a position at which one leg ends and the next leg starts is counted
\* once; such a shared position is a grounded one.
C3_NoPositionInvented ==
    /\ \A i \in 1..Len(emitted) : IsSubseq(emitted[i], P)
    /\ IsSubseq(ConcatShared(emitted), P)
    /\ \A i \in 1..(Len(emitted) - 1) :
         to(emitted[i]) = from(emitted[i + 1]) => grounded(to(emitted[i]))

\* C3 witness: one leg lands on the grounded position from which the next takes off
C3_Witness ==
    \E i \in 1..(Len(emitted) - 1) :
        to(emitted[i]) = from(emitted[i + 1]) /\ Len(emitted[i + 1]) > 2

\* the claim's own reading of an altitude: a grounded position is at 0 ft
C4_Alt(p) == IF p.alt = NoAlt THEN 0 ELSE p.alt
C4_Heuristic(prev, cur) ==
    /\ prev.alt # NoAlt \/ cur.alt # NoAlt
    /\ \/ cur.t - prev.t > 5 * 60 /\ (C4_Alt(prev) < 10000 \/ C4_Alt(cur) < 10000)
       \/ cur.t - prev.t > 10 * 60 * 60

\* C4: landed holds iff (prev flying and cur grounded) or the heuristic landing
\* holds; is_grounded holds iff both are grounded or the heuristic landing holds
C4_LandedDefinition ==
    \A i \in 1..(Len(P) - 1) :
        LET prev == P[i]
            cur == P[i + 1] IN
        /\ landed(prev, cur) <=>
             ((prev.alt # NoAlt /\ cur.alt = NoAlt) \/ C4_Heuristic(prev, cur))
        /\ is_grounded(prev, cur) <=>
             ((prev.alt = NoAlt /\ cur.alt = NoAlt) \/ C4_Heuristic(prev, cur))

\* C4 witness: the iterator has run over a pair 5 minutes apart and a pair over 10 hours apart
C4_Witness ==
    /\ Exhausted
    /\ \E i, j \in 1..(Len(P) - 1) :
         /\ P[i + 1].t - P[i].t = FiveMinutes /\ flying(P[i]) /\ ~landed(P[i], P[i + 1])
         /\ P[j + 1].t - P[j].t > TenHours /\ altitude(P[j]) >= LowAltitude
         /\ altitude(P[j + 1]) >= LowAltitude /\ landed(P[j], P[j + 1])

\* two consecutive flying positions of the input, by the gap between them
C5_FlyingPair(i) == flying(P[i]) /\ flying(P[i + 1])
C5_Gap(i) == P[i + 1].t - P[i].t
C5_SameLegCase(i) ==
    /\ C5_FlyingPair(i) /\ C5_Gap(i) > 5 * 60 /\ C5_Gap(i) <= 10 * 60 * 60
    /\ P[i].alt >= 10000 /\ P[i + 1].alt >= 10000
C5_SplitCase(i) ==
    /\ C5_FlyingPair(i)
    /\ \/ C5_Gap(i) > 5 * 60 /\ (P[i].alt < 10000 \/ P[i + 1].alt < 10000)
       \/ C5_Gap(i) > 10 * 60 * 60
C5_Together(i) ==
    \E l \in Legs : \E j \in 1..(Len(l) - 1) : l[j] = P[i] /\ l[j + 1] = P[i + 1]

\* C5 as stated: in the split case the leg containing p (when p is in a leg)
\* ends at p and q starts a different leg
C5_SplitStartsNewLeg ==
    Exhausted =>
        \A i \in 1..(Len(P) - 1) :
            /\ C5_SameLegCase(i) => C5_Together(i)
            /\ C5_SplitCase(i) =>
                 \A k \in 1..Len(emitted) :
                    P[i] \in Elems(emitted[k]) =>
                        /\ to(emitted[k]) = P[i]
                        /\ \E m \in 1..Len(emitted) :
                              m # k /\ from(emitted[m]) = P[i + 1]

\* C5 amended: in the same-leg case p and q are consecutive in one leg; in the
\* split case no leg holds both, a leg that holds p ends at p and a leg that
\* holds q starts at q; p is in a leg when the transition into p accumulated, q
\* is in a leg when the transition out of q accumulates, and otherwise (an
\* isolated position) it is in no leg.
C5_SplitSeparates ==
    Exhausted =>
        \A i \in 1..(Len(P) - 1) :
            /\ C5_SameLegCase(i) => C5_Together(i)
            /\ C5_SplitCase(i) =>
                 /\ \A l \in Legs :
                      /\ P[i] \in Elems(l) => to(l) = P[i]
                      /\ P[i + 1] \in Elems(l) => from(l) = P[i + 1]
                      /\ ~(P[i] \in Elems(l) /\ P[i + 1] \in Elems(l))
                 /\ (\E l \in Legs : P[i] \in Elems(l)) <=>
                      (i > 1 /\ ~C4_Heuristic(P[i - 1], P[i]))
                 /\ (\E l \in Legs : P[i + 1] \in Elems(l)) <=>
                      (i + 2 <= Len(P) /\ ~C4_Heuristic(P[i + 1], P[i + 2]))

\* C5 witness: a high gap of more than 5 minutes kept in one leg, and a split
\* after which the second position is in no leg
C5_Witness ==
    /\ Exhausted
    /\ \E i, j \in 1..(Len(P) - 1) :
         /\ C5_SameLegCase(i) /\ C5_Together(i)
         /\ C5_SplitCase(j) /\ (\E l \in Legs : to(l) = P[j])
         /\ ~(\E l \in Legs : P[j + 1] \in Elems(l))

\* the input ends in flight: its last transition accumulated a flying position
C6_NotLanded ==
    /\ Len(P) >= 2
    /\ P[Len(P)].alt # NoAlt
    /\ ~C4_Heuristic(P[Len(P) - 1], P[Len(P)])

\* C6: when the input ends in flight the residual sequence is emitted as the
\* final leg (it ends at the last position of the input) and the iterator then
\* returns None and keeps returning None; an empty input yields no leg
C6_ResidualIsEmitted ==
    /\ [](Exhausted =>
            /\ C6_NotLanded => (emitted # <<>> /\ to(emitted[Len(emitted)]) = P[Len(P)])
            /\ P = <<>> => emitted = <<>>
            /\ sequence = <<>> /\ positions = <<>>)
    /\ [][Exhausted => (Exhausted' /\ emitted' = emitted)]_vars

\* C6 witness: an input that ends in flight, its last leg emitted, None returned
C6_Witness ==
    /\ Exhausted /\ C6_NotLanded /\ Len(emitted) = 2
    /\ to(emitted[2]) = P[Len(P)]

\* C7: every leg returned by the facade lasts at least 5 minutes and spans at least 3 km
C7_FacadeLegsPassFilter ==
    \A i \in 1..Len(out) :
        /\ out[i][Len(out[i])].t - out[i][1].t >= 5 * 60
        /\ distace(out[i][1], out[i][Len(out[i])]) >= 3

\* C7 witness: the facade has returned one leg and has discarded another
C7_Witness == Len(out) >= 1 /\ Len(emitted) > Len(out)

\* C38: when fetch returns an error during cached or cached_call, the call
\* returns that error at once: no put follows and every stored blob is as it was
C38_FetchErrorStoresNothing ==
    [][\A p \in Procs :
          (call[p].pc = "fetch" /\ call'[p].data = FetchErr) =>
              /\ call'[p].pc = "done"
              /\ ~call'[p].fetched
              /\ remote' = remote /\ local' = local]_vars

\* C38 witness: a call that would have written its fetched content has returned
\* the fetch error, and its key is still in no back-end
C38_Witness ==
    \E p \in Procs :
        /\ call[p].pc = "done" /\ call[p].data = FetchErr
        /\ ~NoWrite(call[p].action, ProviderCanPut(call[p].provider))
        /\ remote[call[p].key] = NoBlob /\ local[call[p].key] = NoBlob

\* C39 as stated: for every non-empty set of snapshot dates and every target
\* month, closest_date returns a member of the set, never the seed of its fold
C39_ClosestDateIsSnapshot ==
    pj.cd.dates # <<>> =>
        /\ pj.cd.result \in Elems(pj.cd.dates)
        /\ pj.cd.result # Sentinel

\* C33: an etl_task that fails leaves the leg blobs as they were, so no blob at
\* its key if none existed before; when the leg ETL is invoked next, every key
\* whose task failed and whose position blob is listed is not in Completed and
\* is in Todo again
C33_FailedTaskIsTodoAgain ==
    [][/\ \A k \in inflight :
            (ekind = "legs" /\ k \in failedTasks' \ failedTasks) =>
                (TaskBlob(k) \notin legBlobs => TaskBlob(k) \notin legBlobs')
       /\ (epc = "idle" /\ ekind = "legs" /\ epc' = "tasks" /\ ekind' = "legs") =>
            \A k \in failedTasks :
                (k \notin legBlobs /\ k \in list(posBlobs)) =>
                    (k \notin LegCompleted /\ k \in Elems(todo'))]_vars

\* C33 witness: a leg ETL has exited after the task of a key with a position
\* blob failed; the key has no leg blob and is in the Todo of the next invocation
C33_Witness ==
    /\ epc = "idle" /\ ekind = "legs" /\ runs < MaxRuns
    /\ \E k \in failedTasks :
         k \in list(posBlobs) /\ k \notin legBlobs /\ k \in Elems(LegTodo)

\* C32 as stated: the provider requests in flight in the position ETL stage,
\* the daily fetches of every running month_positions counted, never exceed 10
C32_RequestsWithinBuffered == StageInFlight <= PositionBuffered

\* C31 as stated: the facade discards a leg produced by the Legs iterator if and
\* only if its duration is below 5 minutes or its distance is below 3 km, so a
\* leg of exactly 5 minutes (or exactly 3 km) that passes the other test is kept
C31_DiscardedIffBelow ==
    \A i \in 1..Len(emitted) :
        (emitted[i] \notin Elems(out)) <=>
            (duration(emitted[i]) < 5 * 60 \/ distance(emitted[i]) < 3)

\* the index in the input of a position of a leg (times are distinct)
C34_IndexOf(p) == CHOOSE i \in 1..Len(P) : P[i] = p

\* C34: a run of consecutive grounded positions never splits or creates a leg,
\* whatever the gaps between them: no leg holds two consecutive grounded
\* positions, a grounded position of a leg is its first or its last one; when
\* it is the first it is the last of its grounded run, and when it is the last
\* it is the first of its grounded run
C34_GroundedRunIgnored ==
    \A k \in 1..Len(emitted) :
        LET l == emitted[k] IN
        /\ \A j \in 1..(Len(l) - 1) : ~(grounded(l[j]) /\ grounded(l[j + 1]))
        /\ \A j \in 1..Len(l) :
             grounded(l[j]) =>
                LET i == C34_IndexOf(l[j]) IN
                /\ l[j] \in Elems(P)
                /\ j = 1 \/ j = Len(l)
                /\ j = 1 => (i < Len(P) /\ flying(P[i + 1]))
                /\ j = Len(l) => (i > 1 /\ flying(P[i - 1]))

\* C34 witness: a leg lands on the first position of a grounded run whose
\* positions are more than 10 hours apart, and the next leg takes off from its last
C34_Witness ==
    /\ Exhausted /\ Len(emitted) = 2
    /\ \E i \in 1..(Len(P) - 1) :
         /\ grounded(P[i]) /\ grounded(P[i + 1])
         /\ P[i + 1].t - P[i].t > TenHours
         /\ to(emitted[1]) = P[i]
         /\ from(emitted[2]) = P[i + 1]

\* C35: in every leg emitted by the Legs iterator every position strictly
\* between the first and the last is flying
C35_InnerPositionsFly ==
    \A k \in 1..Len(emitted) :
        \A j \in 2..(Len(emitted[k]) - 1) : flying(emitted[k][j])

\* C35 witness: a leg from ground to ground with positions in between
C35_Witness ==
    \E k \in 1..Len(emitted) :
        /\ Len(emitted[k]) >= 4
        /\ grounded(from(emitted[k])) /\ grounded(to(emitted[k]))

\* C36: the positions of a leg are a contiguous run of the input in which every
\* gap is at most 10 hours and every gap of more than 5 minutes has both
\* altitudes at or above 10000 ft (a grounded position counting as 0 ft)
C36_NoHeuristicLandingInsideLeg ==
    \A k \in 1..Len(emitted) :
        LET l == emitted[k] IN
        /\ \E i \in 1..Len(P) :
             i + Len(l) - 1 <= Len(P) /\ l = SubSeq(P, i, i + Len(l) - 1)
        /\ \A j \in 1..(Len(l) - 1) :
             /\ l[j + 1].t - l[j].t <= 10 * 60 * 60
             /\ l[j + 1].t - l[j].t > 5 * 60 =>
                   (C4_Alt(l[j]) >= 10000 /\ C4_Alt(l[j + 1]) >= 10000)

\* C36 witness: a leg with a gap of 10 hours at 10000 ft, after a split at a
\* gap of more than 5 minutes below 10000 ft
C36_Witness ==
    /\ \E k \in 1..Len(emitted) : \E j \in 1..(Len(emitted[k]) - 1) :
         emitted[k][j + 1].t - emitted[k][j].t = TenHours
    /\ \E i \in 1..(Len(P) - 1) :
         /\ flying(P[i]) /\ flying(P[i + 1])
         /\ P[i + 1].t - P[i].t = FiveMinutes + 1
         /\ ~(\E l \in Legs : P[i] \in Elems(l) /\ P[i + 1] \in Elems(l))

\* C37: every leg emitted by the Legs iterator has at least two positions, all
\* of them positions of the input, so the placeholder that seeds the iterator
\* on an empty input is in no leg: an empty input emits no leg
C37_AtLeastTwoPositions ==
    /\ \A k \in 1..Len(emitted) :
         /\ Len(emitted[k]) >= 2
         /\ \A j \in 1..Len(emitted[k]) : emitted[k][j] \in Elems(P)
    /\ P = <<>> => emitted = <<>>

\* C37 witness: a leg of exactly two positions has been emitted, its first one
\* the seed pushed from previous_position
C37_Witness ==
    /\ Exhausted
    /\ \E k \in 1..Len(emitted) : Len(emitted[k]) = 2 /\ from(emitted[k]) = P[1]

\* the seconds of the windows j, j + 1 of a leg, from window n down, whose two
\* endpoints are both strictly above the threshold
RECURSIVE C40_WindowSeconds(_, _, _)
C40_WindowSeconds(leg, n, feet) ==
    IF n = 0 THEN 0
    ELSE C40_WindowSeconds(leg, n - 1, feet)
         + (IF flying(leg[n]) /\ leg[n].alt > feet /\ flying(leg[n + 1]) /\ leg[n + 1].alt > feet
              THEN leg[n + 1].t - leg[n].t ELSE 0)

C8_TodoComputed == ekind = "legs" /\ epc = "tasks" /\ started = 0

\* C8: Todo = Ready \ Completed with Completed the leg blobs listed under
\* leg/v2/data/ that are required, in ascending (month, ICAO) order, and no key
\* whose leg blob exists is in Todo
C8_TodoIsReadyMinusCompleted ==
    C8_TodoComputed =>
        /\ Elems(todo) = (posBlobs \cap Required) \ (legBlobs \cap Required)
        /\ \A i, j \in 1..Len(todo) :
             i < j => (todo[i][2] < todo[j][2]
                        \/ (todo[i][2] = todo[j][2] /\ todo[i][1] < todo[j][1]))
        /\ \A i \in 1..Len(todo) : todo[i] \notin legBlobs

\* C9: a leg ETL run that follows a leg ETL run in which every task succeeded,
\* with no position blob written in between, puts no per-key leg blob and leaves
\* the Completed set as the first run left it
C9_SecondRunWritesNothing ==
    (ekind = "legs" /\ epc # "idle" /\ prevLeg.ran /\ prevLeg.clean) =>
        /\ putsRun = {}
        /\ (legBlobs \cap Required) = prevLeg.completed

\* C10: a failed task never aborts the batch: once the stream is collected every
\* task of Todo has run to completion, every failure has been logged, and a
\* failed read of a leg blob during aggregation does not end the run in an error
C10_FailuresAreLoggedAndSkipped ==
    /\ epc \in {"aggregate", "done", "failed"} => okTasks \cup failedTasks = Elems(todo)
    /\ failedTasks \subseteq errorLog
    /\ epc # "failed"

\* C21 as stated: when the put to the remote back-end fails with an
\* authorization error on a miss, cached_call returns no error: the fetched
\* bytes are stored on the local disk under the same key and returned
C21_AuthErrorFallsBackToLocal ==
    \A p \in Procs :
        (call[p].pc = "done" /\ call[p].denied) =>
            /\ call[p].data \in Bytes
            /\ local[call[p].key] = call[p].data

\* C22 as stated: maybe_get returns Ok(None), never an error, when the key does
\* not exist at the time of the read, on both back-ends, a delete between the
\* existence check and the read of the contents included
C22_AbsentIsNoneNeverError ==
    \A p \in Procs : rd[p].pc \in {"ret", "done"} => rd[p].r # IoError

\* C23 as stated: get_month_positions and get_csv report an absent blob as the
\* None/empty case, never as Err and never by panicking
C23_AbsenceNeverErrOrPanic ==
    \A p \in Procs :
        (rd[p].pc = "done" /\ rd[p].path \in {"get_month_positions", "get_csv"}
            /\ rd[p].r = None) => rd[p].out \notin {"Err", "Panic"}

\* C24 as stated: in the status.json written by aggregate, for every year
\* present, icao_months_to_process is the number of Required keys of that year,
\* icao_months_processed the number of Completed keys of that year, and
\* icao_months_processed <= icao_months_to_process
C24_StatusCounts ==
    (ekind = "legs" /\ epc = "done" /\ statusWritten) =>
        \A y \in DOMAIN StatusJson :
            /\ StatusJson[y].icao_months_to_process
                  = Cardinality({k \in Required : year(k[2]) = y})
            /\ StatusJson[y].icao_months_processed
                  = Cardinality({k \in legBlobs \cap Required : year(k[2]) = y})
            /\ StatusJson[y].icao_months_processed <= StatusJson[y].icao_months_to_process

\* C25: concurrent ETL tasks for distinct keys are independent and commute: a
\* step that changes the leg blobs is the completion of one task and adds the
\* blob of that task's own key only, and once the batch is collected the blobs
\* put by the batch are exactly those of the tasks that succeeded, all of them
\* in the store, whatever the order in which the tasks completed
C25_TasksCommute ==
    /\ [][legBlobs' # legBlobs =>
            \E k \in inflight :
                /\ inflight' = inflight \ {k}
                /\ legBlobs' = legBlobs \cup {k}]_vars
    /\ []((ekind = "legs" /\ StreamCollected) =>
            /\ putsRun = okTasks
            /\ okTasks \subseteq legBlobs)

C25_Witness ==
    /\ ekind = "legs" /\ StreamCollected
    /\ Cardinality(okTasks) >= 2
    /\ failedTasks # {}

\* C26 as stated: for a non-empty set of snapshot dates and a target month,
\* closest_date returns a snapshot date that minimizes the distance to the first
\* of the month, and of two equally close dates the later one, whatever the
\* order in which the dates are enumerated
C26_ClosestDateTiesLater ==
    pj.cd.dates # <<>> =>
        LET S == Elems(pj.cd.dates)
            t == pj.cd.target
            d == pj.cd.result
        IN /\ d \in S
           /\ \A e \in S : Abs(d - t) <= Abs(e - t)
           /\ \A e \in S : Abs(e - t) = Abs(d - t) => e <= d

\* C27 as stated: two runs of private_jets_in_month on the same snapshots, model
\* table, year range and country return the same mapping, whatever the
\* wall-clock date of the run and the enumeration order of the snapshot map
C27_SameInputsSameOutput ==
    (pj.run[1].pc = "done" /\ pj.run[2].pc = "done") => pj.run[1].out = pj.run[2].out

NonDecreasing(ps) ==
    \A i, j \in 1..Len(ps) : i < j => datetime(ps[i]) <= datetime(ps[j])

\* C28: the position list returned by month_positions is non-decreasing by
\* timestamp, when it is computed from the daily traces on a miss and when it is
\* read back from an existing month blob
C28_MonthPositionsSorted ==
    \A m \in DOMAIN rq.monthly : NonDecreasing(rq.monthly[m].positions)

C28_Witness ==
    /\ rq.pc = "done"
    /\ \E m \in DOMAIN rq.monthly :
         rq.monthly[m].hit /\ Len(rq.monthly[m].positions) >= 2
    /\ \E m \in DOMAIN rq.monthly :
         ~rq.monthly[m].hit /\ Len(rq.monthly[m].positions) >= 2

\* the positions the provider has for the aircraft
ProviderPositions ==
    UNION {{Position(d, t) : t \in {0, 1}} :
             d \in {e \in RangeDays \ rq.quiet : Ordinal(e) <= Ordinal(RangeNow)}}

\* C29: aircraft_positions(from, to, icao) returns exactly the positions whose
\* date d satisfies from <= d < to, sorted by timestamp, and invokes
\* month_positions once for each month that contains a day of [from, to) and for
\* no other month
C29_RangeQuery ==
    rq.pc = "done" =>
        LET expected == {p \in ProviderPositions :
                           Ordinal(rq.from) <= Ordinal(p.date)
                             /\ Ordinal(p.date) < Ordinal(rq.to)}
        IN /\ Elems(rq.result) = expected
           /\ Len(rq.result) = Cardinality(expected)
           /\ NonDecreasing(rq.result)
           /\ \A m \in RangeMonths :
                rq.calls[m] =
                    IF \E d \in 1..MaxDay :
                          /\ Ordinal(rq.from) <= Ordinal(Date(m.year, m.month, d))
                          /\ Ordinal(Date(m.year, m.month, d)) < Ordinal(rq.to)
                      THEN 1 ELSE 0

C29_Witness ==
    /\ rq.pc = "done"
    /\ rq.from.day > 1
    /\ Cardinality({m \in RangeMonths : rq.calls[m] = 1}) >= 3
    /\ Len(rq.result) >= 4
    /\ \E m \in DOMAIN rq.monthly : Len(rq.monthly[m].positions) > 0 /\
         \E i \in 1..Len(rq.monthly[m].positions) :
            ~InRange(rq.monthly[m].positions[i], rq.from, rq.to)

\* C30: hive path round trip: for a valid (icao, month) with the month on day 1,
\* decoding the blob name produced by encoding (icao, month) returns
\* (icao, month), in the position layout and in the leg layout
C30_HiveRoundTrip ==
    /\ hv.position.pc = "decoded" => hv.position.pk = [icao |-> hv.icao, month |-> hv.month]
    /\ hv.leg.pc = "decoded" => hv.leg.pk = [icao |-> hv.icao, month |-> hv.month]

C30_Witness ==
    /\ hv.position.pc = "decoded" /\ hv.leg.pc = "decoded"
    /\ hv.month.month < 10
    /\ Len(hv.icao) >= 2

====
